---- MODULE Spec2Model ----
(***************************************************************************)
(* A model of the events-sheet-yt scheduling tool.                         *)
(*                                                                         *)
(*   - the write endpoint POST of src/app/api/events-sheet-yt/route.ts     *)
(*     (lines 143-309) as a state machine: one action per stretch of code  *)
(*     between two awaits, the Google Calendar behind it as a set of       *)
(*     events, every external call an action that may succeed or fail;     *)
(*   - getDatesBetween of src/app/page.tsx (lines 95-109) as an operator   *)
(*     over civil dates, stepped by a small driver.                        *)
(*                                                                         *)
(* Time is counted in minutes.  An instant is the number of minutes since  *)
(* 00:00 UTC of day 0 of the modelled month; a calendar date is its day    *)
(* number.  Asia/Kolkata is UTC+05:30, 330 minutes.                        *)
(***************************************************************************)
EXTENDS Integers, Sequences, FiniteSets, TLC

VARIABLES
  parsedServiceAccountKeys, \* module state: TRUE when the key env parsed
  serverOffset,             \* minutes east of UTC of the server process
  calendar,                 \* the external calendar of the resolved id
  nreq,                     \* requests received so far
  failures,                 \* external failures injected so far
  pc,                       \* position of the handler
  req,                      \* the request being served
  resp,                     \* the response returned
  auth,                     \* TRUE once authenticate() returned a client
  body,                     \* the parsed body
  datesToProcess,
  di, ei, wi,               \* date, event and window loop positions
  hour,                     \* hour text of the event being added
  totalEventsAdded,
  pageToken,
  eventsToDelete,
  delIdx,
  totalDeletedEvents,
  calls,                    \* history: external calls of this request
  insertLog,                \* history: create calls of this request
  deleteLog,                \* history: delete calls of this request
  listFailed,               \* history: dates whose list call failed
  listLog,                  \* history: the list calls of the request
  outstanding,              \* external calls issued and not yet answered
  prev,                     \* history: summary of the previous request
  drA, drB, drOut, drPc,    \* getDatesBetween driver
  events,                   \* page state: the slot list
  bulkInput,                \* page state: the text of the paste field
  selectedDate,             \* page state: the date of the slots
  toast,                    \* the page's last toast
  pastedTitles,             \* history: the titles of the last paste
  lastPaste,                \* history: the text of the last paste
  lastOp,                   \* history: the page's last operation
  lastDate,                 \* history: the date of the last updateEvents
  selectedName,             \* page state: the sheet chosen
  inflight,                 \* getEvents requests not yet answered
  uiOps,                    \* page operations so far
  spreadsheetId,            \* TRUE when SPREADSHEET_ID is set
  doc,                      \* the spreadsheet: sheet title -> rows
  ensured,                  \* history: the spreadsheet when the ensure step ended
  shCal,                    \* the calendar of the sheet-sync route's name
  shPc,                     \* position of the sheet-sync handler
  shReq,                    \* the request it serves
  shResp,                   \* the response returned
  existingSheets,           \* titles read by the ensure step
  shI,                      \* loop position: sheet name or event
  shToDelete,               \* eventsToDelete of the sheet-sync removeAll
  shToken,                  \* pageToken of the sheet-sync removeAll
  shLog,                    \* history: external calls of the request
  shFailures                \* external failures injected so far

postVars == <<parsedServiceAccountKeys, serverOffset, calendar, nreq, failures,
              pc, req, resp, auth, body, datesToProcess, di, ei, wi, hour,
              totalEventsAdded, pageToken, eventsToDelete, delIdx,
              totalDeletedEvents, calls, insertLog, deleteLog, listFailed,
              listLog, outstanding,
              prev>>

dateVars == <<drA, drB, drOut, drPc>>

uiVars == <<events, bulkInput, selectedDate, toast, pastedTitles, lastPaste, lastOp,
            lastDate, selectedName, inflight, uiOps>>

sheetVars == <<spreadsheetId, doc, ensured, shCal, shPc, shReq, shResp,
               existingSheets, shI, shToDelete, shToken, shLog, shFailures>>

vars == <<postVars, dateVars, uiVars, sheetVars>>

----------------------------------------------------------------------------
(* Bounds of the model *)

MaxSlots == 2

MaxDates == 2

MaxFailures == 1

MaxRequests == 2

----------------------------------------------------------------------------
(* Values *)

Undefined == "undefined"

MinutesPerDay == 24 * 60

\* Asia/Kolkata, the "+05:30" of the list window.
KolkataOffset == 5 * 60 + 30

\* The day each date string is.
DayTable ==
  [s \in {"2025-01-09", "2025-01-10", "2025-01-11", "2025-01-12"} |->
     CASE s = "2025-01-09" -> 9
       [] s = "2025-01-10" -> 10
       [] s = "2025-01-11" -> 11
       [] s = "2025-01-12" -> 12]

\* The two characters after the "T" of an event's start.
HourTable == [t \in {"05", "20"} |-> IF t = "05" THEN 5 ELSE 20]

\* An event's start field: absent, a string without "T", or "<date>T<hh>...".
Slots ==
  [title : {"Math"},
   start : {[kind |-> "missing", hh |-> Undefined], [kind |-> "noT", hh |-> Undefined]}
             \cup {[kind |-> "iso", hh |-> h] : h \in {"05", "20", "xx"}},
   timeZone : {"Asia/Kolkata"}]

SeqsUpTo(S, n) == UNION {[1..k -> S] : k \in 0..n}

\* CALENDAR_IDS: the table of names, with the ids the environment sets
\* (here Ravi_Calendar_ID alone); "" stands for an unset variable.
CALENDAR_IDS ==
  [n \in {"Achal", "Neeraj", "Salman", "Vivek", "Jyoti", "Ravi", "Govt"} |->
     IF n = "Ravi" THEN "ravi@group.calendar" ELSE ""]

\* The `name` query parameter; "" stands for an absent (or empty) one.
NameParams == {"Ravi", "Govt", "Nobody", ""}

\* The body's `events`: a missing or non-array value, or an array of slots.
NotAnArray == [isArray |-> FALSE, items |-> <<>>]

NoBody ==
  [action |-> Undefined, events |-> NotAnArray, dates |-> <<>>,
   selectedDate |-> Undefined, isRangeMode |-> FALSE]

\* Bodies that parse.  Fields the handler never reads for the action at hand
\* are left at one value.
Bodies ==
  { b \in [action : {Undefined, "addAll", "removeAll", "sync"},
           events : {NotAnArray}
                      \cup {[isArray |-> TRUE, items |-> q] : q \in SeqsUpTo(Slots, MaxSlots)},
           dates : SeqsUpTo({"2025-01-10", "2025-01-11"}, MaxDates),
           selectedDate : {Undefined, "2025-01-10"},
           isRangeMode : BOOLEAN] :
      /\ b.dates # <<>> => b.selectedDate = Undefined
      /\ b.action # "addAll" => b.events = NotAnArray
      /\ b.action \notin {"addAll", "removeAll"} => ~b.isRangeMode }

\* Every name is sent with a body that does not parse and with one
\* well-formed body; the name Ravi with every body.
Requests ==
  {[name |-> n, jsonOk |-> FALSE, body |-> NoBody] : n \in NameParams}
    \cup {[name |-> n, jsonOk |-> TRUE,
           body |-> [action |-> "removeAll", events |-> NotAnArray,
                     dates |-> <<"2025-01-10">>, selectedDate |-> Undefined,
                     isRangeMode |-> FALSE]] : n \in NameParams}
    \cup [name : {"Ravi"}, jsonOk : {TRUE}, body : Bodies]

\* The requests the page sends (page.tsx 233-284): isRangeMode is the
\* constant true, the dates ascend, the slots are in hour order and each
\* has a start with an hour.
PageSlotLists ==
  { q \in SeqsUpTo({s \in Slots : s.start.kind = "iso" /\ s.start.hh \in DOMAIN HourTable}, 2) :
      \A i \in 1..Len(q), j \in 1..Len(q) :
        i < j => HourTable[q[i].start.hh] < HourTable[q[j].start.hh] }

PageDateLists ==
  {<<"2025-01-10">>, <<"2025-01-11">>, <<"2025-01-10", "2025-01-11">>}

SessionRequests ==
  {[name |-> "Ravi", jsonOk |-> TRUE,
    body |-> [action |-> "addAll", events |-> [isArray |-> TRUE, items |-> q],
              dates |-> d, selectedDate |-> Undefined, isRangeMode |-> TRUE]] :
     q \in PageSlotLists, d \in PageDateLists}
  \cup
  {[name |-> "Ravi", jsonOk |-> TRUE,
    body |-> [action |-> "removeAll", events |-> NotAnArray,
              dates |-> d, selectedDate |-> Undefined, isRangeMode |-> TRUE]] :
     d \in PageDateLists}

NoRequest == [name |-> "", jsonOk |-> FALSE, body |-> NoBody]

NoResponse ==
  [status |-> 0, error |-> "", message |-> "", count |-> 0, days |-> 0,
   date |-> Undefined]

NoCalls == [auth |-> 0, insert |-> 0, list |-> 0, delete |-> 0]

NoPrev ==
  [action |-> Undefined, dates |-> {}, clean |-> FALSE, status |-> 0, count |-> 0]

----------------------------------------------------------------------------
(* Time *)

\* new Date("<date>T<hh>:<mm>:00"): a string without offset is read in the
\* server's local time zone.
LocalInstant(day, hh, mm, offset) == day * MinutesPerDay + hh * 60 + mm - offset

\* new Date("<date>T<hh>:<mm>:00+05:30")
KolkataInstant(day, hh, mm) == day * MinutesPerDay + hh * 60 + mm - KolkataOffset

FormatDay(n) ==
  IF \E s \in DOMAIN DayTable : DayTable[s] = n
    THEN CHOOSE s \in DOMAIN DayTable : DayTable[s] = n
    ELSE "other"

\* toLocaleDateString("en-CA", { timeZone: "Asia/Kolkata" })
LocalDateStr(t) == FormatDay((t + KolkataOffset) \div MinutesPerDay)

----------------------------------------------------------------------------
(* The external calendar *)

PageSize == 2

\* Events the calendar holds before the first request (Asia/Kolkata times):
\* an all-day event on 10 January; one from 23:30 on the 9th to 00:30 on
\* the 10th; events at 03:00 (the 9th still in UTC) and 12:00 on the 10th; one at 07:00 on the
\* 10th that carries no id (id 0); one from 23:30 on the 10th to 00:30 on
\* the 11th.  Nothing starts on the 11th.
InitialCalendar ==
  { [id |-> 1, timed |-> FALSE, start |-> KolkataInstant(10, 0, 0),
     end |-> KolkataInstant(11, 0, 0), summary |-> "Holiday"],
    [id |-> 2, timed |-> TRUE, start |-> KolkataInstant(9, 23, 30),
     end |-> KolkataInstant(10, 0, 30), summary |-> "Eve"],
    [id |-> 3, timed |-> TRUE, start |-> KolkataInstant(10, 3, 0),
     end |-> KolkataInstant(10, 3, 50), summary |-> "Early"],
    [id |-> 0, timed |-> TRUE, start |-> KolkataInstant(10, 7, 0),
     end |-> KolkataInstant(10, 7, 50), summary |-> "NoId"],
    [id |-> 4, timed |-> TRUE, start |-> KolkataInstant(10, 12, 0),
     end |-> KolkataInstant(10, 12, 50), summary |-> "Noon"],
    [id |-> 5, timed |-> TRUE, start |-> KolkataInstant(10, 23, 30),
     end |-> KolkataInstant(11, 0, 30), summary |-> "Late"] }

\* events.list's window: timeMin bounds the end of an event from below
\* (exclusive), timeMax its start from above; "T23:59:59" is minute 23:59.
InWindow(e, dateStr) ==
  /\ e.end > KolkataInstant(DayTable[dateStr], 0, 0)
  /\ e.start <= KolkataInstant(DayTable[dateStr], 23, 59)

\* orderBy: "startTime"
RECURSIVE SortByStart(_)
SortByStart(S) ==
  IF S = {} THEN <<>>
  ELSE LET Before(a, b) == a.start < b.start \/ (a.start = b.start /\ a.id < b.id)
           first == CHOOSE a \in S : \A b \in S \ {a} : Before(a, b)
       IN <<first>> \o SortByStart(S \ {first})

ListResult(cal, dateStr) == SortByStart({e \in cal : InWindow(e, dateStr)})

\* A list that returns its first page only and never a token, as a call
\* without paging would see it.
ListFirstPage(cal, dateStr, token) ==
  LET all == SortByStart({e \in cal : InWindow(e, dateStr)})
      last == IF PageSize < Len(all) THEN PageSize ELSE Len(all)
  IN [items |-> SubSeq(all, 1, last), nextPageToken |-> 0]

\* One page of events.list: the items after `token` and the next token
\* (0 when there is no further page).
ListPage(cal, dateStr, token) ==
  LET all == ListResult(cal, dateStr)
      last == IF token + PageSize < Len(all) THEN token + PageSize ELSE Len(all)
  IN [items |-> SubSeq(all, token + 1, last),
      nextPageToken |-> IF last < Len(all) THEN last ELSE 0]

NewId(cal) ==
  CHOOSE n \in 1..(Cardinality(cal) + 1) :
    /\ \A e \in cal : e.id # n
    /\ \A m \in 1..(n - 1) : \E e \in cal : e.id = m

----------------------------------------------------------------------------
(* The write endpoint *)

envVars == <<parsedServiceAccountKeys, serverOffset>>

loopVars == <<di, ei, wi, hour, totalEventsAdded, pageToken, eventsToDelete,
              delIdx, totalDeletedEvents>>

histVars == <<calls, insertLog, deleteLog, listFailed, listLog>>

\* const name = searchParams.get("name") || "Vivek"
NameOf(r) == IF r.name = "" THEN "Vivek" ELSE r.name

\* A lookup that falls back on the primary calendar for a name the table
\* lacks, as a handler without the guard of 146-154 would.
CalendarIdOrPrimary(name) ==
  IF name \in DOMAIN CALENDAR_IDS /\ CALENDAR_IDS[name] # ""
    THEN CALENDAR_IDS[name] ELSE "primary"

\* CALENDAR_IDS[name]; "" for a name the table lacks or the env leaves unset
CalendarIdOf(name) ==
  IF name \in DOMAIN CALENDAR_IDS THEN CALENDAR_IDS[name] ELSE ""

\* dates && dates.length > 0 ? dates : (selectedDate ? [selectedDate] : [])
DatesOf(b) ==
  IF Len(b.dates) > 0 THEN b.dates
  ELSE IF b.selectedDate # Undefined THEN <<b.selectedDate>> ELSE <<>>

\* A slot as one window of fifty minutes, as the calendar-only revisions of
\* the route create it.
OneWindow == <<[from |-> 0, to |-> 50]>>

\* The two windows of a slot, in minutes after the hour: [start1, end1] and
\* [start2, end2].
Windows == <<[from |-> 0, to |-> 5], [from |-> 10, to |-> 50]>>

\* All external calls of the request so far were answered without error.
Clean ==
  /\ listFailed = {}
  /\ \A i \in 1..Len(deleteLog) : deleteLog[i].outcome = "ok"
  /\ \A i \in 1..Len(insertLog) : insertLog[i].ok

\* Return a response: the handler is over.
Finish(r) ==
  /\ resp' = r
  /\ pc' = "done"
  /\ UNCHANGED prev

\* What is remembered of a request once the next one arrives.
Summary ==
  [action |-> body.action,
   dates |-> {datesToProcess[i] : i \in 1..Len(datesToProcess)},
   clean |-> Clean, status |-> resp.status, count |-> resp.count]

Reply(status, error) ==
  Finish([NoResponse EXCEPT !.status = status, !.error = error])

PostInit ==
  /\ parsedServiceAccountKeys \in BOOLEAN
  /\ serverOffset \in {0, KolkataOffset}  \* the server's zone: UTC or Asia/Kolkata
  /\ calendar = InitialCalendar
  /\ nreq = 0
  /\ failures = 0
  /\ pc = "idle"
  /\ req = NoRequest
  /\ resp = NoResponse
  /\ auth = FALSE
  /\ body = NoBody
  /\ datesToProcess = <<>>
  /\ di = 0 /\ ei = 0 /\ wi = 0
  /\ hour = Undefined
  /\ totalEventsAdded = 0
  /\ pageToken = 0
  /\ eventsToDelete = <<>>
  /\ delIdx = 0
  /\ totalDeletedEvents = 0
  /\ calls = NoCalls
  /\ insertLog = <<>>
  /\ deleteLog = <<>>
  /\ listFailed = {}
  /\ listLog = <<>>
  /\ outstanding = 0
  /\ prev = NoPrev

\* A request arrives (one at a time).
Receive(r) ==
  /\ pc \in {"idle", "done"}
  /\ (r.jsonOk /\ r.body.action = "addAll") =>
       Cardinality(calendar) + 2 * Len(r.body.events.items) * Len(DatesOf(r.body))
         <= Cardinality(InitialCalendar) + 2 * MaxSlots * MaxDates
  /\ nreq' = nreq + 1
  /\ req' = r
  /\ pc' = "start"
  /\ resp' = NoResponse
  /\ auth' = FALSE
  /\ body' = NoBody
  /\ datesToProcess' = <<>>
  /\ di' = 0 /\ ei' = 0 /\ wi' = 0
  /\ hour' = Undefined
  /\ totalEventsAdded' = 0
  /\ pageToken' = 0
  /\ eventsToDelete' = <<>>
  /\ delIdx' = 0
  /\ totalDeletedEvents' = 0
  /\ calls' = NoCalls
  /\ insertLog' = <<>>
  /\ deleteLog' = <<>>
  /\ listFailed' = {}
  /\ listLog' = <<>>
  /\ prev' = IF pc = "done" THEN Summary ELSE NoPrev
  /\ UNCHANGED <<dateVars, uiVars, sheetVars, envVars, calendar, failures, outstanding>>

\* The handler stands at an external call: authenticate (156), events.insert
\* (210), events.list (250) or events.delete (279).
CallDue ==
  \/ pc = "auth"
  \/ pc = "insert" /\ hour \in DOMAIN HourTable
  \/ pc = "list"
  \/ /\ pc = "delete"
     /\ delIdx <= Len(eventsToDelete)
     /\ eventsToDelete[delIdx].id # 0

\* Calls fired without waiting for the answer of the one before.
IssueCallUnawaited ==
  /\ CallDue
  /\ outstanding < 2
  /\ outstanding' = outstanding + 1
  /\ UNCHANGED <<dateVars, uiVars, sheetVars, envVars, calendar, nreq, failures, pc, req, resp, auth,
                 body, datesToProcess, loopVars, histVars, prev>>

\* The call is sent; every call is awaited, so none is sent while another
\* is outstanding.
IssueCall ==
  /\ CallDue
  /\ outstanding = 0
  /\ outstanding' = 1
  /\ UNCHANGED <<dateVars, uiVars, sheetVars, envVars, calendar, nreq, failures, pc, req, resp, auth,
                 body, datesToProcess, loopVars, histVars, prev>>

\* The awaited call is answered (or has thrown).
Answered ==
  /\ outstanding >= 1
  /\ outstanding' = outstanding - 1

\* route.ts 144-154
CheckCalendarId ==
  /\ pc = "start"
  /\ IF CalendarIdOf(NameOf(req)) = ""
       THEN Reply(400, "Invalid or missing calendar ID")
       ELSE /\ pc' = "auth"
            /\ UNCHANGED <<resp, prev>>
  /\ UNCHANGED <<dateVars, uiVars, sheetVars, outstanding, envVars, calendar, nreq, failures, req, auth, body,
                 datesToProcess, loopVars, histVars>>

\* route.ts 156-157 and authenticate, 45-78
Authenticate ==
  /\ pc = "auth"
  /\ Answered
  /\ calls' = [calls EXCEPT !.auth = @ + 1]
  /\ \/ /\ ~parsedServiceAccountKeys
        /\ Reply(500, "Service account credentials missing")
        /\ UNCHANGED <<auth, failures>>
     \/ /\ parsedServiceAccountKeys
        /\ auth' = TRUE
        /\ pc' = "parse"
        /\ UNCHANGED <<resp, prev, failures>>
     \/ /\ parsedServiceAccountKeys
        /\ failures < MaxFailures
        /\ failures' = failures + 1
        /\ Reply(500, "Failed to authenticate with Google APIs")
        /\ UNCHANGED auth
  /\ UNCHANGED <<dateVars, uiVars, sheetVars, envVars, calendar, nreq, req, body, datesToProcess, loopVars,
                 insertLog, deleteLog, listFailed, listLog>>

\* route.ts 167-176
ParseBody ==
  /\ pc = "parse"
  /\ IF ~req.jsonOk
       THEN /\ Reply(400, "Invalid JSON in request body")
            /\ UNCHANGED body
       ELSE /\ body' = req.body
            /\ pc' = "validate"
            /\ UNCHANGED <<resp, prev>>
  /\ UNCHANGED <<dateVars, uiVars, sheetVars, outstanding, envVars, calendar, nreq, failures, req, auth, datesToProcess,
                 loopVars, histVars>>

\* route.ts 178-188
Validate ==
  /\ pc = "validate"
  /\ IF body.action = Undefined
       THEN /\ Reply(400, "Missing action in request body")
            /\ UNCHANGED datesToProcess
       ELSE /\ datesToProcess' = DatesOf(body)
            /\ IF Len(DatesOf(body)) = 0
                 THEN Reply(400, "No valid dates provided")
                 ELSE /\ pc' = "dispatch"
                      /\ UNCHANGED <<resp, prev>>
  /\ UNCHANGED <<dateVars, uiVars, sheetVars, outstanding, envVars, calendar, nreq, failures, req, auth, body, loopVars,
                 histVars>>

\* route.ts 191-196, 238-239 and 301: the branch on `action`
Dispatch ==
  /\ pc = "dispatch"
  /\ \/ /\ body.action = "addAll"
        /\ IF ~body.events.isArray
             THEN /\ Reply(400, "Events must be an array")
                  /\ UNCHANGED <<di, ei>>
             ELSE /\ di' = 1
                  /\ ei' = 1
                  /\ pc' = IF Len(body.events.items) = 0 THEN "addDone" ELSE "addSlot"
                  /\ UNCHANGED <<resp, prev>>
     \/ /\ body.action = "removeAll"
        /\ di' = 1
        /\ ei' = ei
        /\ pc' = "list"
        /\ UNCHANGED <<resp, prev>>
     \/ /\ body.action \notin {"addAll", "removeAll"}
        /\ Reply(400, "Invalid action")
        /\ UNCHANGED <<di, ei>>
  /\ UNCHANGED <<dateVars, uiVars, sheetVars, outstanding, envVars, calendar, nreq, failures, req, auth, body,
                 datesToProcess, wi, hour, totalEventsAdded, pageToken,
                 eventsToDelete, delIdx, totalDeletedEvents, histVars>>

\* route.ts 199-205: the hour of the slot, evt.start.split("T")[1].slice(0, 2).
\* A start that is absent or has no "T" makes this throw a TypeError, which
\* the handler's outer catch (302-308) turns into a 500.
AddSlot ==
  /\ pc = "addSlot"
  /\ LET evt == body.events.items[ei] IN
       IF evt.start.kind # "iso"
         THEN /\ Reply(500, "Failed to process request")
              /\ UNCHANGED <<hour, wi>>
         ELSE /\ hour' = evt.start.hh
              /\ wi' = 1
              /\ pc' = "insert"
              /\ UNCHANGED <<resp, prev>>
  /\ UNCHANGED <<dateVars, uiVars, sheetVars, outstanding, envVars, calendar, nreq, failures, req, auth, body,
                 datesToProcess, di, ei, totalEventsAdded, pageToken,
                 eventsToDelete, delIdx, totalDeletedEvents, histVars>>

\* The loop heads of 198, 199 and 207 after one window is done.
AdvanceAdd ==
  IF wi < Len(Windows)
    THEN /\ wi' = wi + 1
         /\ pc' = "insert"
         /\ UNCHANGED <<di, ei>>
    ELSE /\ wi' = wi
         /\ IF ei < Len(body.events.items)
              THEN /\ ei' = ei + 1
                   /\ pc' = "addSlot"
                   /\ UNCHANGED di
              ELSE IF di < Len(datesToProcess)
                THEN /\ di' = di + 1
                     /\ ei' = 1
                     /\ pc' = "addSlot"
                ELSE /\ pc' = "addDone"
                     /\ UNCHANGED <<di, ei>>

\* The requestBody of events.insert, 211-221; toISOString() names the same
\* instant as the local time the Date was built from.
NewEvent(cal, dateStr, hh, w, title, offset) ==
  [id |-> NewId(cal), timed |-> TRUE,
   start |-> LocalInstant(DayTable[dateStr], HourTable[hh], Windows[w].from, offset),
   end |-> LocalInstant(DayTable[dateStr], HourTable[hh], Windows[w].to, offset),
   summary |-> title]

\* The history entry of a create call.
InsertEntry(e) ==
  [date |-> datesToProcess[di], slot |-> ei, win |-> wi, start |-> e.start,
   end |-> e.end]

\* route.ts 209-223: the call succeeded.
InsertSucceeded(e) ==
  /\ calendar' = calendar \cup {e}
  /\ totalEventsAdded' = totalEventsAdded + 1
  /\ insertLog' = Append(insertLog, [entry |-> InsertEntry(e), ok |-> TRUE])
  /\ AdvanceAdd
  /\ UNCHANGED <<failures, resp>>

\* A create call whose failure is not caught next to the call and reaches
\* the handler's outer catch instead.
InsertFailedRethrown(e) ==
  /\ insertLog' = Append(insertLog, [entry |-> InsertEntry(e), ok |-> FALSE])
  /\ Reply(500, "Failed to process request")
  /\ UNCHANGED <<calendar, totalEventsAdded, di, ei, wi>>

\* route.ts 224-226: the call failed; the catch logs and the loop goes on.
InsertFailed(e) ==
  /\ insertLog' = Append(insertLog, [entry |-> InsertEntry(e), ok |-> FALSE])
  /\ AdvanceAdd
  /\ UNCHANGED <<calendar, totalEventsAdded, resp>>

\* route.ts 207-227: one window of one slot on one date.  new Date() of a
\* text that is no time is an Invalid Date, toISOString() throws a
\* RangeError inside the try, and no call is made.
InsertEvent ==
  /\ pc = "insert"
  /\ IF hour \notin DOMAIN HourTable
       THEN /\ AdvanceAdd
            /\ UNCHANGED <<calendar, totalEventsAdded, failures, resp, histVars, outstanding>>
       ELSE LET e == NewEvent(calendar, datesToProcess[di], hour, wi,
                              body.events.items[ei].title, serverOffset)
            IN
            /\ calls' = [calls EXCEPT !.insert = @ + 1]
            /\ Answered
            /\ \/ InsertSucceeded(e)
               \/ /\ failures < MaxFailures
                  /\ failures' = failures + 1
                  /\ InsertFailed(e)
            /\ UNCHANGED <<deleteLog, listFailed, listLog>>
  /\ UNCHANGED <<dateVars, uiVars, sheetVars, envVars, nreq, req, auth, body, datesToProcess, hour,
                 pageToken, eventsToDelete, delIdx, totalDeletedEvents, prev>>

\* route.ts 231-235
AddRespond ==
  /\ pc = "addDone"
  /\ Finish([NoResponse EXCEPT
               !.status = 200,
               !.message = IF body.isRangeMode THEN "events added across days"
                                               ELSE "events added for date",
               !.count = totalEventsAdded,
               !.days = IF body.isRangeMode THEN Len(datesToProcess) ELSE 0,
               !.date = IF body.isRangeMode THEN Undefined ELSE datesToProcess[1]])
  /\ UNCHANGED <<dateVars, uiVars, sheetVars, outstanding, envVars, calendar, nreq, failures, req, auth, body,
                 datesToProcess, loopVars, histVars>>

\* No filter: every event the list call returns is taken for deletion, as
\* in the revisions of the route that delete all of a window.
MatchesAny(e, dateStr) == TRUE

\* A filter that drops the events without a start time and keeps the rest.
MatchesTimed(e, dateStr) == e.timed

\* A filter that reads the date of the start in UTC.
MatchesUtcDate(e, dateStr) ==
  e.timed /\ FormatDay(e.start \div MinutesPerDay) = dateStr

\* The filter of 261-266.
MatchesDate(e, dateStr) == e.timed /\ LocalDateStr(e.start) = dateStr

\* The history entry of a list call: the token passed and the one returned.
ListEntry(dateStr, next, ok) ==
  [date |-> dateStr, token |-> pageToken, next |-> next, ok |-> ok]

\* A list step that throws away the pages of the date when a call fails.
ListEventsForgetOnFailure ==
  /\ pc = "list"
  /\ Answered
  /\ calls' = [calls EXCEPT !.list = @ + 1]
  /\ LET dateStr == datesToProcess[di]
         page == ListPage(calendar, dateStr, pageToken)
         Keep(e) == MatchesDate(e, dateStr)
     IN
       \/ /\ eventsToDelete' = eventsToDelete \o SelectSeq(page.items, Keep)
          /\ pageToken' = page.nextPageToken
          /\ pc' = IF page.nextPageToken # 0 THEN "list" ELSE "delete"
          /\ listLog' = Append(listLog, ListEntry(dateStr, page.nextPageToken, TRUE))
          /\ UNCHANGED <<failures, listFailed>>
       \/ /\ failures < MaxFailures
          /\ failures' = failures + 1
          /\ listFailed' = listFailed \cup {dateStr}
          /\ listLog' = Append(listLog, ListEntry(dateStr, 0, FALSE))
          /\ pc' = "delete"
          /\ eventsToDelete' = <<>>
          /\ UNCHANGED pageToken
  /\ delIdx' = 1
  /\ UNCHANGED <<dateVars, uiVars, sheetVars, envVars, calendar, nreq, req, resp, auth, body, datesToProcess,
                 di, ei, wi, hour, totalEventsAdded, totalDeletedEvents,
                 insertLog, deleteLog, prev>>

\* route.ts 241-274: one events.list call of the paging loop of one date.
ListEvents ==
  /\ pc = "list"
  /\ Answered
  /\ calls' = [calls EXCEPT !.list = @ + 1]
  /\ LET dateStr == datesToProcess[di]
         page == ListPage(calendar, dateStr, pageToken)
         Keep(e) == MatchesDate(e, dateStr)
     IN
       \/ /\ eventsToDelete' = eventsToDelete \o SelectSeq(page.items, Keep)
          /\ pageToken' = page.nextPageToken
          /\ pc' = IF page.nextPageToken # 0 THEN "list" ELSE "delete"
          /\ listLog' = Append(listLog, ListEntry(dateStr, page.nextPageToken, TRUE))
          /\ UNCHANGED <<failures, listFailed>>
       \/ /\ failures < MaxFailures
          /\ failures' = failures + 1
          /\ listFailed' = listFailed \cup {dateStr}
          /\ listLog' = Append(listLog, ListEntry(dateStr, 0, FALSE))
          /\ pc' = "delete"
          /\ UNCHANGED <<eventsToDelete, pageToken>>
  /\ delIdx' = 1
  /\ UNCHANGED <<dateVars, uiVars, sheetVars, envVars, calendar, nreq, req, resp, auth, body, datesToProcess,
                 di, ei, wi, hour, totalEventsAdded, totalDeletedEvents,
                 insertLog, deleteLog, prev>>

\* The history entry of a delete call.
DeleteEntry(evt, outcome) ==
  [date |-> datesToProcess[di], id |-> evt.id, outcome |-> outcome]

\* route.ts 279-280: the call succeeded.
DeleteSucceeded(evt) ==
  /\ calendar' = calendar \ {evt}
  /\ totalDeletedEvents' = totalDeletedEvents + 1
  /\ deleteLog' = Append(deleteLog, DeleteEntry(evt, "ok"))

\* A failed delete that is counted all the same, as if the counter were
\* incremented outside the try.
DeleteFailedCounted(evt, code) ==
  /\ calendar' = IF code = "404" THEN calendar \ {evt} ELSE calendar
  /\ deleteLog' = Append(deleteLog, DeleteEntry(evt, code))
  /\ totalDeletedEvents' = totalDeletedEvents + 1

\* route.ts 281-289: the call failed with 404 (the event is gone already),
\* 403 or anything else; the catch logs.
DeleteFailed(evt, code) ==
  /\ calendar' = IF code = "404" THEN calendar \ {evt} ELSE calendar
  /\ deleteLog' = Append(deleteLog, DeleteEntry(evt, code))
  /\ UNCHANGED totalDeletedEvents

\* A delete loop that a failed call ends: the events after it on the date
\* are left alone.
DeleteEventBreakOnFailure ==
  /\ pc = "delete"
  /\ delIdx <= Len(eventsToDelete)
  /\ LET evt == eventsToDelete[delIdx] IN
       IF evt.id = 0
         THEN /\ delIdx' = delIdx + 1
              /\ UNCHANGED <<calendar, totalDeletedEvents, failures, calls, deleteLog,
                           outstanding>>
         ELSE /\ calls' = [calls EXCEPT !.delete = @ + 1]
              /\ Answered
              /\ \/ /\ DeleteSucceeded(evt)
                    /\ delIdx' = delIdx + 1
                    /\ UNCHANGED failures
                 \/ /\ failures < MaxFailures
                    /\ failures' = failures + 1
                    /\ delIdx' = Len(eventsToDelete) + 1
                    /\ \E code \in {"404", "403", "other"} : DeleteFailed(evt, code)
  /\ UNCHANGED <<dateVars, uiVars, sheetVars, envVars, nreq, req, resp, auth, body, datesToProcess, di, ei,
                 wi, hour, totalEventsAdded, pageToken, eventsToDelete,
                 insertLog, listFailed, listLog, prev, pc>>

\* route.ts 276-291: one event of eventsToDelete.
DeleteEvent ==
  /\ pc = "delete"
  /\ delIdx <= Len(eventsToDelete)
  /\ LET evt == eventsToDelete[delIdx] IN
       IF evt.id = 0
         THEN UNCHANGED <<calendar, totalDeletedEvents, failures, calls, deleteLog,
                           outstanding>>
         ELSE /\ calls' = [calls EXCEPT !.delete = @ + 1]
              /\ Answered
              /\ \/ /\ DeleteSucceeded(evt)
                    /\ UNCHANGED failures
                 \/ /\ failures < MaxFailures
                    /\ failures' = failures + 1
                    /\ \E code \in {"404", "403", "other"} : DeleteFailed(evt, code)
  /\ delIdx' = delIdx + 1
  /\ UNCHANGED <<dateVars, uiVars, sheetVars, envVars, nreq, req, resp, auth, body, datesToProcess, di, ei,
                 wi, hour, totalEventsAdded, pageToken, eventsToDelete,
                 insertLog, listFailed, listLog, prev, pc>>

\* A delete loop that may stop one event short of the end of eventsToDelete.
NextDateSkippingLast ==
  /\ pc = "delete"
  /\ delIdx >= Len(eventsToDelete)
  /\ IF di < Len(datesToProcess)
       THEN /\ di' = di + 1
            /\ pageToken' = 0
            /\ eventsToDelete' = <<>>
            /\ delIdx' = 0
            /\ pc' = "list"
       ELSE /\ pc' = "removeDone"
            /\ UNCHANGED <<di, pageToken, eventsToDelete, delIdx>>
  /\ UNCHANGED <<dateVars, uiVars, sheetVars, outstanding, envVars, calendar, nreq, failures, req, resp, auth, body,
                 datesToProcess, ei, wi, hour, totalEventsAdded,
                 totalDeletedEvents, histVars, prev>>

\* The loop head of 241 once the deletes of a date are through.
NextDate ==
  /\ pc = "delete"
  /\ delIdx > Len(eventsToDelete)
  /\ IF di < Len(datesToProcess)
       THEN /\ di' = di + 1
            /\ pageToken' = 0
            /\ eventsToDelete' = <<>>
            /\ delIdx' = 0
            /\ pc' = "list"
       ELSE /\ pc' = "removeDone"
            /\ UNCHANGED <<di, pageToken, eventsToDelete, delIdx>>
  /\ UNCHANGED <<dateVars, uiVars, sheetVars, outstanding, envVars, calendar, nreq, failures, req, resp, auth, body,
                 datesToProcess, ei, wi, hour, totalEventsAdded,
                 totalDeletedEvents, histVars, prev>>

\* route.ts 294-298
RemoveRespond ==
  /\ pc = "removeDone"
  /\ Finish([NoResponse EXCEPT
               !.status = 200,
               !.message = IF body.isRangeMode THEN "events removed across days"
                                               ELSE "events removed for date",
               !.count = totalDeletedEvents,
               !.days = IF body.isRangeMode THEN Len(datesToProcess) ELSE 0,
               !.date = IF body.isRangeMode THEN Undefined ELSE datesToProcess[1]])
  /\ UNCHANGED <<dateVars, uiVars, sheetVars, outstanding, envVars, calendar, nreq, failures, req, auth, body,
                 datesToProcess, loopVars, histVars>>

Handler ==
  \/ IssueCall
  \/ CheckCalendarId
  \/ Authenticate
  \/ ParseBody
  \/ Validate
  \/ Dispatch
  \/ AddSlot
  \/ InsertEvent
  \/ AddRespond
  \/ ListEvents
  \/ DeleteEvent
  \/ NextDate
  \/ RemoveRespond

\* One request against the initial calendar.
ReceiveOne == nreq = 0 /\ pc = "idle" /\ \E r \in Requests : Receive(r)

ReceiveNext ==
  /\ nreq < MaxRequests
  /\ pc \in {"idle", "done"}
  /\ \E r \in SessionRequests : Receive(r)

\* A session: up to MaxRequests well-formed requests, one after the other.
SessionNext == ReceiveNext \/ Handler

----------------------------------------------------------------------------
(* getDatesBetween, page.tsx 95-109 *)

\* A Date in the browser's local time: civil date and minute of the day.
IsLeap(y) == (y % 4 = 0 /\ y % 100 # 0) \/ y % 400 = 0

DaysInMonth(y, m) ==
  IF m = 2 THEN (IF IsLeap(y) THEN 29 ELSE 28)
  ELSE IF m \in {4, 6, 9, 11} THEN 30 ELSE 31

\* setHours(h, min, ...): the time of day is replaced, the date is kept.
SetHours(t, h, mi) == [t EXCEPT !.min = h * 60 + mi]

\* A day step that knows no leap years.
NextDayNoLeap(t) ==
  IF t.d < (IF t.m = 2 THEN 28 ELSE DaysInMonth(t.y, t.m)) THEN [t EXCEPT !.d = @ + 1]
  ELSE IF t.m < 12 THEN [t EXCEPT !.d = 1, !.m = @ + 1]
  ELSE [t EXCEPT !.d = 1, !.m = 1, !.y = @ + 1]

\* setDate(getDate() + 1): the day after, at the same time of day.
NextDay(t) ==
  IF t.d < DaysInMonth(t.y, t.m) THEN [t EXCEPT !.d = @ + 1]
  ELSE IF t.m < 12 THEN [t EXCEPT !.d = 1, !.m = @ + 1]
  ELSE [t EXCEPT !.d = 1, !.m = 1, !.y = @ + 1]

\* current <= end, on Dates
NotAfter(s, t) ==
  \/ s.y < t.y
  \/ s.y = t.y /\ s.m < t.m
  \/ s.y = t.y /\ s.m = t.m /\ s.d < t.d
  \/ s.y = t.y /\ s.m = t.m /\ s.d = t.d /\ s.min <= t.min

\* `${year}-${month}-${day}` with month and day padded to two digits: the
\* text is held as its three numbers.
FormatDate(t) == <<t.y, t.m, t.d>>

RECURSIVE DatesLoop(_, _, _)
DatesLoop(current, end, dates) ==
  IF NotAfter(current, end)
    THEN DatesLoop(NextDay(current), end, Append(dates, FormatDate(current)))
    ELSE dates

getDatesBetween(startDate, endDate) ==
  DatesLoop(SetHours(startDate, 0, 0), SetHours(endDate, 23, 59), <<>>)

DateAt(c, t) == [y |-> c[1], m |-> c[2], d |-> c[3], min |-> t]

\* The ranges tried: the two endpoints, in either order and at midnight or
\* noon, around the leap day of 2024, around the new year, and around the
\* end of February 2025.
DatePairs ==
  UNION { {<<DateAt(c1, t1), DateAt(c2, t2)>> : c1 \in R, c2 \in R, t1 \in {0, 720}, t2 \in {0, 720}} :
          R \in { {<<2024, 2, 27>>, <<2024, 2, 28>>, <<2024, 2, 29>>, <<2024, 3, 1>>, <<2024, 3, 2>>},
                  {<<2024, 12, 30>>, <<2024, 12, 31>>, <<2025, 1, 1>>, <<2025, 1, 2>>},
                  {<<2025, 2, 27>>, <<2025, 2, 28>>, <<2025, 3, 1>>} } }

NoDate == [y |-> 0, m |-> 0, d |-> 0, min |-> 0]

----------------------------------------------------------------------------
(* The sheet-sync revision of the route: a spreadsheet with one sheet per  *)
(* configured name next to the calendar.  A sheet is its rows; a row is    *)
(* the text of its cells from column A on, an empty row is <<>>, and what  *)
(* follows the last row that is not empty is not held.                     *)

\* The rows a request may carry.
MaxRows == 2

\* CALENDAR_IDS of the revision: here the environment sets the ids of Ravi
\* and Govt.
SheetCalendarIds ==
  [n \in {"Achal", "Neeraj", "Salman", "Vivek", "Jyoti", "Ravi", "Govt"} |->
     IF n = "Ravi" THEN "ravi@group.calendar"
     ELSE IF n = "Govt" THEN "govt@group.calendar" ELSE ""]

HasCalendarId(name) == SheetCalendarIds[name] # ""

\* Object.keys(CALENDAR_IDS).filter(name => CALENDAR_IDS[name]): the keys
\* in the order they are written.
SHEET_NAMES ==
  SelectSeq(<<"Achal", "Neeraj", "Salman", "Vivek", "Jyoti", "Ravi", "Govt">>,
            HasCalendarId)

SheetNameSet == {SHEET_NAMES[i] : i \in 1..Len(SHEET_NAMES)}

SHEETS_HEADERS ==
  <<"Start - End", "Title", "YouTube Hindi", "YouTube English",
    "YouTube Playlist Hindi", "YouTube Playlist English">>

\* The sheets the spreadsheet may hold: the configured ones and one the
\* route knows nothing of.
SheetTitles == SheetNameSet \cup {"Notes"}

\* `${String(index).padStart(2, "0")}:00 - ${String(index).padStart(2, "0")}:50`
TimeRange(index) ==
  <<"00:00 - 00:50", "01:00 - 01:50", "02:00 - 02:50", "03:00 - 03:50",
    "04:00 - 04:50", "05:00 - 05:50">>[index + 1]

\* Drop the empty rows at the end.
RECURSIVE TrimRows(_)
TrimRows(rows) ==
  IF rows # <<>> /\ rows[Len(rows)] = <<>>
    THEN TrimRows(SubSeq(rows, 1, Len(rows) - 1))
    ELSE rows

RowAt(rows, k) == IF k <= Len(rows) THEN rows[k] ELSE <<>>

\* values.update on rows `first` to `first + Len(values) - 1`, columns A to
\* F: every row of the range takes the row given; the rows outside the
\* range keep theirs.
UpdateSheet(sheet, first, values) ==
  LET last == first + Len(values) - 1
      extent == IF Len(sheet.rows) >= last THEN Len(sheet.rows) ELSE last
  IN [sheet EXCEPT !.rows =
        TrimRows([k \in 1..extent |->
                    IF k >= first /\ k <= last THEN values[k - first + 1]
                    ELSE RowAt(sheet.rows, k)])]

\* A clear that begins at row 1, as the range `${name}!A1:F` would.
ClearFromTop(sheet, first) == [sheet EXCEPT !.rows = <<>>]

\* values.clear on the rows from `first` on, columns A to F.
ClearSheet(sheet, first) ==
  [sheet EXCEPT !.rows = TrimRows(SubSeq(@, 1, IF first - 1 < Len(@) THEN first - 1 ELSE Len(@)))]

\* values.get on a range of rows: what the API returns ends with the last
\* row that is not empty.
GetRows(sheet, first, last) ==
  TrimRows(SubSeq(sheet.rows, first, IF last < Len(sheet.rows) THEN last ELSE Len(sheet.rows)))

NoSheet == [exists |-> FALSE, rows |-> <<>>]

Sheet(rows) == [exists |-> TRUE, rows |-> rows]

\* A row an earlier add has left.
OldRow(index) == <<TimeRange(index), "Old", "old-hindi", "", "", "">>

\* The spreadsheets a request may find.  The first configured sheet: absent;
\* as an earlier run left it, with no row, or with MaxRows + 1 rows, below
\* the header; without a first row; with a first row that differs in the
\* first or in another cell.  The last configured sheet: absent, or as an
\* earlier run left it.  The sheet "Notes" is the user's own.
InitialDocs ==
  LET firstName == SHEET_NAMES[1]
      lastName == SHEET_NAMES[Len(SHEET_NAMES)]
      HalfHeader == [SHEETS_HEADERS EXCEPT ![2] = "Subject"]
      OtherHeader == [SHEETS_HEADERS EXCEPT ![1] = "Time"]
      firsts == { NoSheet,
                  Sheet(<<SHEETS_HEADERS>>),
                  Sheet(<<SHEETS_HEADERS>> \o [i \in 1..(MaxRows + 1) |-> OldRow(i - 1)]),
                  Sheet(<< <<>>, OldRow(0) >>),
                  Sheet(<<OtherHeader, OldRow(0)>>),
                  Sheet(<<HalfHeader, OldRow(0)>>) }
      lasts == { NoSheet, Sheet(<<SHEETS_HEADERS, OldRow(0)>>) }
  IN { [t \in SheetTitles |->
          IF t = firstName THEN f
          ELSE IF t = lastName THEN l
          ELSE Sheet(<< <<"memo">>, <<"buy milk">> >>)] : f \in firsts, l \in lasts }

\* The events of a request body: one with an end after its start, one whose
\* end is its start, one whose start is no date.
SheetEvents ==
  LET SheetEvent(title, hh, mins, valid, hindi) ==
        [title |-> title, hh |-> hh, mins |-> mins, valid |-> valid,
         youtubeHindi |-> hindi, youtubeEnglish |-> "", youtubePlaylistHindi |-> "",
         youtubePlaylistEnglish |-> ""]
  IN { SheetEvent("Math", 5, 50, TRUE, "math-hindi"),
       SheetEvent("Art", 6, 0, TRUE, ""),
       SheetEvent("Bad", 0, 0, FALSE, "") }

\* A body: `events` is absent ("undefined"), something that is no array
\* ("string") or an array.
NoSheetBody ==
  [action |-> Undefined, eventsKind |-> Undefined, events |-> <<>>,
   selectedDate |-> Undefined]

\* The requests of the two routes: GET and POST of the sheet-sync revision,
\* and GET of the calendar route.  "" stands for an absent parameter.
\* The bodies: no action, an unknown one, addAll without an array or with
\* an array of one to MaxRows events (the empty array is left out),
\* removeAll without and with a date.
SheetRequests ==
  [route : {"sheet"}, method : {"POST"}, name : {"Ravi", "Govt", ""}, jsonOk : {TRUE},
   body : [action : {Undefined, "sync"}, eventsKind : {Undefined}, events : {<<>>},
           selectedDate : {Undefined}]
            \cup [action : {"addAll"}, eventsKind : {Undefined, "string"},
                  events : {<<>>}, selectedDate : {Undefined}]
            \cup [action : {"addAll"}, eventsKind : {"array"},
                  events : SeqsUpTo(SheetEvents, MaxRows) \ {<<>>},
                  selectedDate : {Undefined}]
            \cup [action : {"removeAll"}, eventsKind : {Undefined}, events : {<<>>},
                  selectedDate : {Undefined, "2025-01-10"}],
   action : {""}, sheetName : {""}, date : {""}]
    \cup [route : {"sheet"}, method : {"POST"}, name : {"Ravi"}, jsonOk : {FALSE},
          body : {NoSheetBody}, action : {""}, sheetName : {""}, date : {""}]
    \cup [route : {"sheet"}, method : {"GET"}, name : {""}, jsonOk : {FALSE},
          body : {NoSheetBody}, action : {"", "getSheetNames"}, sheetName : {""},
          date : {""}]
    \cup [route : {"sheet"}, method : {"GET"}, name : {""}, jsonOk : {FALSE},
          body : {NoSheetBody}, action : {"getEvents"},
          sheetName : {"", "Ravi", "Nobody"}, date : {""}]
    \cup [route : {"calendar"}, method : {"GET"}, name : {""}, jsonOk : {FALSE},
          body : {NoSheetBody}, action : {"", "getSheetNames"}, sheetName : {""},
          date : {""}]
    \cup [route : {"calendar"}, method : {"GET"}, name : {""}, jsonOk : {FALSE},
          body : {NoSheetBody}, action : {"getEvents"},
          sheetName : {"", "Ravi", "Govt"}, date : {"", "2025-01-10"}]

NoSheetRequest ==
  [route |-> "", method |-> "", name |-> "", jsonOk |-> FALSE, body |-> NoSheetBody,
   action |-> "", sheetName |-> "", date |-> ""]

NoSheetResponse ==
  [status |-> 0, error |-> "", message |-> "", sheetNames |-> <<>>, events |-> <<>>]

\* No request at the sheet-sync route.
SheetIdle ==
  /\ spreadsheetId = TRUE
  /\ doc = [t \in SheetTitles |-> NoSheet]
  /\ ensured = [t \in SheetTitles |-> NoSheet]
  /\ shCal = {}
  /\ shPc = "idle"
  /\ shReq = NoSheetRequest
  /\ shResp = NoSheetResponse
  /\ existingSheets = {}
  /\ shI = 0
  /\ shToDelete = <<>>
  /\ shToken = 0
  /\ shLog = <<>>
  /\ shFailures = 0

\* A request arrives at a spreadsheet and a calendar as earlier requests
\* have left them.
SheetInit ==
  /\ spreadsheetId \in BOOLEAN
  /\ doc \in InitialDocs
  /\ ensured = [t \in SheetTitles |-> NoSheet]
  /\ shCal = InitialCalendar
  /\ shPc = "idle"
  /\ shReq = NoSheetRequest
  /\ shResp = NoSheetResponse
  /\ existingSheets = {}
  /\ shI = 0
  /\ shToDelete = <<>>
  /\ shToken = 0
  /\ shLog = <<>>
  /\ shFailures = 0

SheetReceive ==
  /\ shPc = "idle"
  /\ \E r \in SheetRequests :
       /\ shReq' = r
       /\ shPc' = IF r.route = "calendar" THEN "calendarGet" ELSE "start"
  /\ UNCHANGED <<postVars, dateVars, uiVars, spreadsheetId, doc, ensured, shCal, shResp,
                 existingSheets, shI, shToDelete, shToken, shLog, shFailures>>

\* Return a response: the handler is over.
SheetReply(status, error) ==
  /\ shResp' = [NoSheetResponse EXCEPT !.status = status, !.error = error]
  /\ shPc' = "done"

SheetDone(r) ==
  /\ shResp' = r
  /\ shPc' = "done"

\* An external call throws; it is logged with its outcome.
Throws(call) ==
  /\ shFailures < MaxFailures
  /\ shFailures' = shFailures + 1
  /\ shLog' = Append(shLog, [call |-> call, ok |-> FALSE])

\* The call returns.
Returns(call) ==
  /\ shLog' = Append(shLog, [call |-> call, ok |-> TRUE])
  /\ UNCHANGED shFailures

\* authenticate() and the SPREADSHEET_ID check, 128-138 and 251-263; the
\* constructor of GoogleAuth may throw.
SheetAuthenticate ==
  \/ /\ shFailures < MaxFailures
     /\ shFailures' = shFailures + 1
     /\ SheetReply(500, "Failed to authenticate with Google APIs")
  \/ /\ UNCHANGED shFailures
     /\ IF ~spreadsheetId
          THEN SheetReply(500, "SPREADSHEET_ID is not set in environment variables")
          ELSE shPc' = "ensureGet" /\ UNCHANGED shResp

\* The handlers up to the ensure step: GET 125-138, POST 223-263.
SheetBegin ==
  /\ shPc = "start"
  /\ IF shReq.method = "GET" THEN SheetAuthenticate
     ELSE IF ~HasCalendarId(NameOf(shReq))
       THEN SheetReply(400, "Invalid or missing calendar ID") /\ UNCHANGED shFailures
     ELSE IF ~shReq.jsonOk
       THEN SheetReply(400, "Invalid JSON in request body") /\ UNCHANGED shFailures
     ELSE IF shReq.body.action = Undefined
       THEN SheetReply(400, "Missing action in request body") /\ UNCHANGED shFailures
     ELSE SheetAuthenticate
  /\ UNCHANGED <<postVars, dateVars, uiVars, spreadsheetId, doc, ensured, shCal, shReq,
                 existingSheets, shI, shToDelete, shToken, shLog>>

\* What a throw inside the ensure step becomes: the step's own catch
\* rethrows (118-121); GET answers it at 143-148, POST at 395-404.
EnsureFailed ==
  IF shReq.method = "GET"
    THEN SheetReply(500, "Failed to ensure sheets exist and have headers")
    ELSE SheetReply(500, "Failed to process request")

\* 64-70: the titles of the sheets of the spreadsheet.
EnsureGet ==
  /\ shPc = "ensureGet"
  /\ \/ /\ Returns("spreadsheets.get")
        /\ existingSheets' = {t \in SheetTitles : doc[t].exists}
        /\ shI' = 1
        /\ shPc' = "ensureSheet"
        /\ UNCHANGED shResp
     \/ /\ Throws("spreadsheets.get")
        /\ EnsureFailed
        /\ UNCHANGED <<existingSheets, shI>>
  /\ UNCHANGED <<postVars, dateVars, uiVars, spreadsheetId, doc, ensured, shCal, shReq,
                 shToDelete, shToken>>

\* 105: currentHeaders.length === 0 || currentHeaders[0] !== SHEETS_HEADERS[0]
HeaderDiffers(currentHeaders) ==
  Len(currentHeaders) = 0 \/ currentHeaders[1] # SHEETS_HEADERS[1]

\* 72-113, one sheet name of the loop: a missing sheet is added (75-89); of
\* an existing one the first row is read and compared (99-105).
EnsureSheet ==
  /\ shPc = "ensureSheet"
  /\ shI <= Len(SHEET_NAMES)
  /\ LET sheetName == SHEET_NAMES[shI] IN
       IF sheetName \notin existingSheets
         THEN \/ /\ Returns("batchUpdate")
                 /\ doc' = [doc EXCEPT ![sheetName] = Sheet(<<>>)]
                 /\ shPc' = "ensureHeader"
                 /\ UNCHANGED <<shResp, shI>>
              \/ /\ Throws("batchUpdate")
                 /\ EnsureFailed
                 /\ UNCHANGED <<doc, shI>>
         ELSE \/ /\ Returns("values.get")
                 /\ IF HeaderDiffers(RowAt(GetRows(doc[sheetName], 1, 1), 1))
                      THEN shPc' = "ensureHeader" /\ UNCHANGED shI
                      ELSE shPc' = "ensureSheet" /\ shI' = shI + 1
                 /\ UNCHANGED <<doc, shResp>>
              \/ /\ Throws("values.get")
                 /\ EnsureFailed
                 /\ UNCHANGED <<doc, shI>>
  /\ UNCHANGED <<postVars, dateVars, uiVars, spreadsheetId, ensured, shCal, shReq,
                 existingSheets, shToDelete, shToken>>

\* 90-96 and 106-112: the header is written to A1:F1.
EnsureHeader ==
  /\ shPc = "ensureHeader"
  /\ LET sheetName == SHEET_NAMES[shI] IN
       \/ /\ Returns("values.update")
          /\ doc' = [doc EXCEPT ![sheetName] = UpdateSheet(@, 1, <<SHEETS_HEADERS>>)]
          /\ shI' = shI + 1
          /\ shPc' = "ensureSheet"
          /\ UNCHANGED shResp
       \/ /\ Throws("values.update")
          /\ EnsureFailed
          /\ UNCHANGED <<doc, shI>>
  /\ UNCHANGED <<postVars, dateVars, uiVars, spreadsheetId, ensured, shCal, shReq,
                 existingSheets, shToDelete, shToken>>

\* The loop of 72 is over: the ensure step has succeeded.
EnsureDone ==
  /\ shPc = "ensureSheet"
  /\ shI > Len(SHEET_NAMES)
  /\ ensured' = doc
  /\ shPc' = "action"
  /\ UNCHANGED <<postVars, dateVars, uiVars, spreadsheetId, doc, shCal, shReq, shResp,
                 existingSheets, shI, shToDelete, shToken, shLog, shFailures>>

\* GET after the ensure step, 150-220.
SheetGetAction ==
  /\ shPc = "action"
  /\ shReq.method = "GET"
  /\ IF shReq.action = "getSheetNames"
       THEN /\ SheetDone([NoSheetResponse EXCEPT !.status = 200, !.sheetNames = SHEET_NAMES])
            /\ UNCHANGED <<shLog, shFailures>>
     ELSE IF shReq.action # "getEvents"
       THEN /\ SheetDone([NoSheetResponse EXCEPT !.status = 200,
                            !.message = "Events Sheet YT API is running"])
            /\ UNCHANGED <<shLog, shFailures>>
     ELSE IF shReq.sheetName = "" \/ shReq.sheetName \notin SheetNameSet
       THEN /\ SheetReply(400, "Invalid or missing sheet name")
            /\ UNCHANGED <<shLog, shFailures>>
     ELSE \/ /\ Returns("values.get")
             /\ LET rows == GetRows(doc[shReq.sheetName], 1, Len(doc[shReq.sheetName].rows))
                    Cell(row, k) == IF k <= Len(row) THEN row[k] ELSE ""
                    \* 176: the first row is skipped when its first cell is the header's
                    dataRows == IF rows # <<>> /\ Cell(rows[1], 1) = SHEETS_HEADERS[1]
                                  THEN SubSeq(rows, 2, Len(rows)) ELSE rows
                    \* 179-205: a row as an event, its time range (or the one of
                    \* its index) and its title
                    RowEvent(row, index) ==
                      [time |-> IF Cell(row, 1) # "" THEN Cell(row, 1) ELSE TimeRange(index),
                       title |-> Cell(row, 2)]
                IN SheetDone([NoSheetResponse EXCEPT !.status = 200,
                     !.events = [i \in 1..Len(dataRows) |-> RowEvent(dataRows[i], i - 1)]])
          \/ /\ Throws("values.get")
             /\ SheetReply(500, "Failed to fetch events")
  /\ UNCHANGED <<postVars, dateVars, uiVars, spreadsheetId, doc, ensured, shCal, shReq,
                 existingSheets, shI, shToDelete, shToken>>

\* POST after the ensure step: 269-275, 329-340 and 394.
SheetDispatch ==
  /\ shPc = "action"
  /\ shReq.method = "POST"
  /\ LET b == shReq.body IN
       IF b.action = "addAll"
         THEN IF b.eventsKind # "array"
                THEN /\ SheetReply(400, "Events must be an array")
                     /\ UNCHANGED <<shI, shToDelete, shToken>>
                ELSE /\ shPc' = "insert"
                     /\ shI' = 1
                     /\ UNCHANGED <<shResp, shToDelete, shToken>>
       ELSE IF b.action = "removeAll"
         THEN IF b.selectedDate = Undefined
                THEN /\ SheetReply(400, "selectedDate is required for removeAll action.")
                     /\ UNCHANGED <<shI, shToDelete, shToken>>
                ELSE /\ shPc' = "list"
                     /\ shToken' = 0
                     /\ shToDelete' = <<>>
                     /\ UNCHANGED <<shResp, shI>>
       ELSE /\ SheetReply(400, "Invalid action")
            /\ UNCHANGED <<shI, shToDelete, shToken>>
  /\ UNCHANGED <<postVars, dateVars, uiVars, spreadsheetId, doc, ensured, shCal, shReq,
                 existingSheets, shLog, shFailures>>

\* 278-299, one event of the loop; a throw reaches the catch of 395.  The
\* start is read in the server's zone; an end not after the start becomes
\* the start plus fifty minutes (279-288).
SheetInsert ==
  /\ shPc = "insert"
  /\ shI <= Len(shReq.body.events)
  /\ LET evt == shReq.body.events[shI] IN
       IF ~evt.valid
         THEN /\ SheetReply(500, "Failed to process request")
              /\ UNCHANGED <<shCal, shI, shLog, shFailures>>
         ELSE \/ /\ Returns("events.insert")
                 /\ LET start == LocalInstant(10, evt.hh, 0, serverOffset) IN
                      shCal' = shCal \cup
                        {[id |-> NewId(shCal), timed |-> TRUE, start |-> start,
                          end |-> IF evt.mins <= 0 THEN start + 50 ELSE start + evt.mins,
                          summary |-> evt.title]}
                 /\ shI' = shI + 1
                 /\ UNCHANGED <<shPc, shResp>>
              \/ /\ Throws("events.insert")
                 /\ SheetReply(500, "Failed to process request")
                 /\ UNCHANGED <<shCal, shI>>
  /\ UNCHANGED <<postVars, dateVars, uiVars, spreadsheetId, doc, ensured, shReq,
                 existingSheets, shToDelete, shToken>>

\* 302-313: one row per event, the time range from the event's index.
SheetValues(evts) ==
  [i \in 1..Len(evts) |->
     <<TimeRange(i - 1), evts[i].title, evts[i].youtubeHindi, evts[i].youtubeEnglish,
       evts[i].youtubePlaylistHindi, evts[i].youtubePlaylistEnglish>>]

\* 301-326: the rows are written to A2:F(events.length + 1).
SheetUpdate ==
  /\ shPc = "insert"
  /\ shI > Len(shReq.body.events)
  /\ LET name == NameOf(shReq) IN
       \/ /\ Returns("values.update")
          /\ doc' = [doc EXCEPT ![name] = UpdateSheet(@, 2, SheetValues(shReq.body.events))]
          /\ SheetDone([NoSheetResponse EXCEPT !.status = 200,
               !.message = "All events added to calendar and sheet updated successfully!"])
       \/ /\ Throws("values.update")
          /\ SheetReply(500, "Failed to process request")
          /\ UNCHANGED doc
  /\ UNCHANGED <<postVars, dateVars, uiVars, spreadsheetId, ensured, shCal, shReq,
                 existingSheets, shI, shToDelete, shToken>>

\* One page of events.list, 344-355; the window is the day of selectedDate
\* in UTC (336-337 and 347-348).
UtcListPage(cal, dateStr, token) ==
  LET InUtcWindow(e) ==
        /\ e.end > DayTable[dateStr] * MinutesPerDay
        /\ e.start <= DayTable[dateStr] * MinutesPerDay + 23 * 60 + 59
      all == SortByStart({e \in cal : InUtcWindow(e)})
      last == IF token + PageSize < Len(all) THEN token + PageSize ELSE Len(all)
  IN [items |-> SubSeq(all, token + 1, last),
      nextPageToken |-> IF last < Len(all) THEN last ELSE 0]

\* 343-356, one page; every event of the page is kept.
SheetList ==
  /\ shPc = "list"
  /\ \/ /\ Returns("events.list")
        /\ LET response == UtcListPage(shCal, shReq.body.selectedDate, shToken) IN
             /\ shToDelete' = shToDelete \o response.items
             /\ shToken' = response.nextPageToken
             /\ IF response.nextPageToken # 0
                  THEN UNCHANGED <<shPc, shI>>
                  ELSE shPc' = "delete" /\ shI' = 1
        /\ UNCHANGED shResp
     \/ /\ Throws("events.list")
        /\ SheetReply(500, "Failed to process request")
        /\ UNCHANGED <<shToDelete, shToken, shI>>
  /\ UNCHANGED <<postVars, dateVars, uiVars, spreadsheetId, doc, ensured, shCal, shReq,
                 existingSheets>>

\* 361-380, one event; a failed delete is logged and the loop goes on.
SheetDelete ==
  /\ shPc = "delete"
  /\ shI <= Len(shToDelete)
  /\ LET evt == shToDelete[shI] IN
       IF evt.id = 0
         THEN UNCHANGED <<shCal, shLog, shFailures>>
         ELSE \/ /\ Returns("events.delete")
                 /\ shCal' = shCal \ {evt}
              \/ /\ Throws("events.delete")
                 /\ UNCHANGED shCal
  /\ shI' = shI + 1
  /\ UNCHANGED <<postVars, dateVars, uiVars, spreadsheetId, doc, ensured, shPc, shReq, shResp,
                 existingSheets, shToDelete, shToken>>

\* 382-391: the rows of the named sheet from row 2 on are cleared.
SheetClear ==
  /\ shPc = "delete"
  /\ shI > Len(shToDelete)
  /\ LET name == NameOf(shReq) IN
       \/ /\ Returns("values.clear")
          /\ doc' = [doc EXCEPT ![name] = ClearSheet(@, 2)]
          /\ SheetDone([NoSheetResponse EXCEPT !.status = 200,
               !.message = "All events removed from calendar and sheet cleared successfully!"])
       \/ /\ Throws("values.clear")
          /\ SheetReply(500, "Failed to process request")
          /\ UNCHANGED doc
  /\ UNCHANGED <<postVars, dateVars, uiVars, spreadsheetId, ensured, shCal, shReq,
                 existingSheets, shI, shToDelete, shToken>>

\* GET of the calendar route, route.ts 81-140: one events.list for the
\* Kolkata day of `date`, each item answered with its summary as title.
CalendarGet ==
  /\ shPc = "calendarGet"
  /\ IF shReq.action # "getEvents"
       THEN /\ SheetReply(400, "Invalid or missing action")
            /\ UNCHANGED <<shLog, shFailures>>
     ELSE IF shReq.sheetName = "" \/ shReq.date = ""
       THEN /\ SheetReply(400, "Missing sheetName or date")
            /\ UNCHANGED <<shLog, shFailures>>
     ELSE IF CalendarIdOf(shReq.sheetName) = ""
       THEN /\ SheetReply(400, "Invalid calendar ID")
            /\ UNCHANGED <<shLog, shFailures>>
     ELSE IF ~parsedServiceAccountKeys
       THEN /\ SheetReply(500, "Service account credentials missing")
            /\ UNCHANGED <<shLog, shFailures>>
     ELSE \/ /\ shFailures < MaxFailures
             /\ shFailures' = shFailures + 1
             /\ SheetReply(500, "Failed to authenticate with Google APIs")
             /\ UNCHANGED shLog
          \/ /\ Returns("events.list")
             /\ LET items == ListPage(calendar, shReq.date, 0).items IN
                  SheetDone([NoSheetResponse EXCEPT !.status = 200,
                    !.events = [i \in 1..Len(items) |->
                                  [time |-> items[i].start, title |-> items[i].summary]]])
          \/ /\ Throws("events.list")
             /\ SheetReply(500, "Failed to fetch events")
  /\ UNCHANGED <<postVars, dateVars, uiVars, spreadsheetId, doc, ensured, shCal, shReq,
                 existingSheets, shI, shToDelete, shToken>>

SheetNext ==
  \/ SheetReceive
  \/ SheetBegin
  \/ EnsureGet
  \/ EnsureSheet
  \/ EnsureHeader
  \/ EnsureDone
  \/ SheetGetAction
  \/ SheetDispatch
  \/ SheetInsert
  \/ SheetUpdate
  \/ SheetList
  \/ SheetDelete
  \/ SheetClear
  \/ CalendarGet

----------------------------------------------------------------------------
\* The page as it is first rendered (page.tsx 121-132): the sheet "Home",
\* no slots, an empty paste field, today's date; the effect of 176-209 has
\* sent its first getEvents request.
PageInit ==
  /\ selectedName = "Home"
  /\ inflight = {[sheetName |-> "Home", date |-> "2025-01-10", id |-> 0]}
  /\ lastDate = ""
  /\ events = <<>>
  /\ bulkInput = << <<>> >>
  /\ selectedDate = "2025-01-10"
  /\ toast = ""
  /\ pastedTitles = <<>>
  /\ lastPaste = << <<>> >>
  /\ lastOp = ""
  /\ uiOps = 0

DateInitIdle == drA = NoDate /\ drB = NoDate /\ drOut = <<>> /\ drPc = "off"

PostIdle == PostInit /\ parsedServiceAccountKeys /\ serverOffset = 0

\* The page calls getDatesBetween(dateRange.from, dateRange.to).
DatesCall ==
  /\ drPc = "ready"
  /\ drOut' = getDatesBetween(drA, drB)
  /\ drPc' = "returned"
  /\ UNCHANGED <<postVars, uiVars, sheetVars, drA, drB>>

\* The user picks another range.
DatesPick ==
  /\ drPc = "returned"
  /\ \E p \in DatePairs : drA' = p[1] /\ drB' = p[2]
  /\ drOut' = <<>>
  /\ drPc' = "ready"
  /\ UNCHANGED <<postVars, uiVars, sheetVars>>

\* The page opens on the range from today to today, at midnight
\* (page.tsx 112-113 and 132).
DatesInit ==
  /\ PostIdle
  /\ PageInit
  /\ SheetIdle
  /\ drA = DateAt(<<2024, 2, 27>>, 0)
  /\ drB = DateAt(<<2024, 2, 27>>, 0)
  /\ drOut = <<>>
  /\ drPc = "ready"

DatesNext == DatesCall \/ DatesPick

SpecDates == DatesInit /\ [][DatesNext]_vars

----------------------------------------------------------------------------
(* The page: the slot list and its operations, page.tsx 26-27, 84-88, 127-345 *)

CARD_COUNT == 18

START_HOUR == 5

\* String(hour).padStart(2, "0")
Pad2 ==
  [n \in 0..23 |->
     <<"00", "01", "02", "03", "04", "05", "06", "07", "08", "09", "10", "11",
       "12", "13", "14", "15", "16", "17", "18", "19", "20", "21", "22",
       "23">>[n + 1]]

\* A title is held as the pieces a single blank separates: "Tailwind CSS"
\* is <<"Tailwind", "CSS">>, "" is <<"">> and " " is <<"", "">>.
initialEventTitles ==
  << <<"HTML">>, <<"CSS">>, <<"JavaScript">>, <<"TypeScript">>, <<"React">>,
     <<"Next.js">>, <<"Vue.js">>, <<"Angular">>, <<"Svelte">>,
     <<"Tailwind", "CSS">>, <<"Bootstrap">>, <<"Node.js">>, <<"Express.js">>,
     <<"Django">>, <<"Flask">>, <<"Spring", "Boot">>, <<"GraphQL">>,
     <<"REST", "API">> >>

\* A table of titles whose last entry is missing.
ShortTitles == SubSeq(initialEventTitles, 1, CARD_COUNT - 1)

EmptySlot == <<"Empty", "Slot">>

\* title.trim() === ""
IsBlank(title) == \A i \in 1..Len(title) : title[i] = ""

\* !title || title.trim() === "" || title === "Empty Slot"
Skipped(title) == IsBlank(title) \/ title = EmptySlot

\* `https://www.youtube.com/results?search_query=${encodeURIComponent(title +
\* what)}` and, for a playlist, "&sp=EgIQAw%3D%3D" after it.
SearchUrl(title, what, playlist) ==
  [base |-> "https://www.youtube.com/results",
   search_query |-> <<title, what>>,
   sp |-> IF playlist THEN "EgIQAw%3D%3D" ELSE ""]

\* The four links of a title.
LinksOf(title) ==
  [youtubeHindi |-> SearchUrl(title, " in Hindi", FALSE),
   youtubeEnglish |-> SearchUrl(title, " in English", FALSE),
   youtubePlaylistHindi |-> SearchUrl(title, " playlist in Hindi", TRUE),
   youtubePlaylistEnglish |-> SearchUrl(title, " playlist in English", TRUE)]

\* The slot of position idx (from 0): `${date}T${startHour}:00:00` to
\* `${date}T${startHour}:50:00`.
MakeSlot(date, idx, title, links) ==
  [start |-> [date |-> date, hh |-> Pad2[idx + START_HOUR], mm |-> "00"],
   end |-> [date |-> date, hh |-> Pad2[idx + START_HOUR], mm |-> "50"],
   title |-> title,
   youtubeHindi |-> links.youtubeHindi,
   youtubeEnglish |-> links.youtubeEnglish,
   youtubePlaylistHindi |-> links.youtubePlaylistHindi,
   youtubePlaylistEnglish |-> links.youtubePlaylistEnglish,
   timeZone |-> "Asia/Kolkata"]

\* No title at this position of the table.
NoTitle == <<"">>

TitleAt(titles, idx) == IF idx + 1 <= Len(titles) THEN titles[idx + 1] ELSE NoTitle

\* Array.from({ length: CARD_COUNT }).map(...).filter(evt => evt !== null)
\* over a list of titles.
RECURSIVE SlotsFrom(_, _, _)
SlotsFrom(date, titles, idx) ==
  IF idx >= CARD_COUNT THEN <<>>
  ELSE LET title == TitleAt(titles, idx)
           rest == SlotsFrom(date, titles, idx + 1)
       IN IF Skipped(title) THEN rest
          ELSE <<MakeSlot(date, idx, title, LinksOf(title))>> \o rest

\* The slots of a table of titles cut before its last entry.
updateEventsShort(date) == SlotsFrom(date, ShortTitles, 0)

\* page.tsx 135-155
updateEvents(date) == SlotsFrom(date, initialEventTitles, 0)

MaxUiOps == 3

\* The text of the paste field is the list of its comma-separated items
\* (split(",") of "" is one empty item); an item is the list of its words,
\* and the word " " stands for white space with nothing around it.
Blank == " "

IsWord(w) == w # Blank

\* item.trim() and bulkInput.trim()
Trim(item) == SelectSeq(item, IsWord)

\* word.replace(/[()]/g, "")
StripParens(w) ==
  CASE w = "()" -> ""
    [] w = "(Intro)" -> "Intro"
    [] w = "(Dev" -> "Dev"
    [] OTHER -> w

NonEmpty(w) == w # ""

\* trimmedItem.replace(/[()]/g, "").split(/\s+/): the words without their
\* parentheses; a word that was only parentheses leaves white space, which
\* splits off an empty piece at the front or at the back and nothing in the
\* middle.
SplitWords(trimmedItem) ==
  LET st == [i \in 1..Len(trimmedItem) |-> StripParens(trimmedItem[i])]
      ne == SelectSeq(st, NonEmpty)
  IN IF ne = <<>> THEN (IF Len(st) = 1 THEN <<"">> ELSE <<"", "">>)
     ELSE (IF st[1] = "" THEN <<"">> ELSE <<>>) \o ne
          \o (IF st[Len(st)] = "" THEN <<"">> ELSE <<>>)

\* words.slice(0, 2).join(" ")
TitleOf(trimmedItem) ==
  LET words == SplitWords(trimmedItem)
  IN SubSeq(words, 1, IF Len(words) < 2 THEN Len(words) ELSE 2)

\* The for loop of page.tsx 306-314 from item i on, titles being the titles
\* pushed so far.
RECURSIVE PasteLoop(_, _, _)
PasteLoop(items, i, titles) ==
  IF i > Len(items) THEN titles
  ELSE LET trimmedItem == Trim(items[i])
           pushed == IF trimmedItem # <<>> THEN Append(titles, TitleOf(trimmedItem))
                     ELSE titles
       IN IF Len(pushed) >= CARD_COUNT THEN pushed
          ELSE PasteLoop(items, i + 1, pushed)

\* initialEventTitles[pastedTitles.length] || "Empty Slot"
Fallback(n) == IF n + 1 <= Len(initialEventTitles) THEN initialEventTitles[n + 1] ELSE EmptySlot

\* The while loop of page.tsx 315-317.
RECURSIVE PadTitles(_)
PadTitles(titles) ==
  IF Len(titles) >= CARD_COUNT THEN titles
  ELSE PadTitles(Append(titles, Fallback(Len(titles))))

\* The titles handleBulkPaste makes of a text.
PastedTitlesOf(text) == PadTitles(PasteLoop(text, 1, <<>>))

\* !bulkInput.trim()
IsBlankInput(text) == Len(text) = 1 /\ Trim(text[1]) = <<>>

\* The texts tried: nothing; white space; three words, one with a
\* parenthesis; a word in parentheses, an empty item and a word before
\* parentheses; parentheses alone; parentheses before a word and the
\* placeholder's own name; a comma between white space; a text of more
\* items than there are cards, the second of them empty.
PasteTexts ==
  { << <<>> >>,
    << <<Blank>> >>,
    << <<"Web", "(Dev", "Basics">> >>,
    << <<"(Intro)">>, <<>>, <<"Web", "()">> >>,
    << <<"()">> >>,
    << <<"()", "Web">>, <<"Empty", "Slot">> >>,
    << <<>>, <<Blank>> >>,
    [i \in 1..(CARD_COUNT + 2) |-> IF i = 2 THEN <<>> ELSE <<Pad2[i], "x">>] }

\* What the route's GET answers for an event: its summary as title and four
\* empty links (route.ts 118-128).
NoLink == [base |-> "", search_query |-> <<NoTitle, "">>, sp |-> ""]

FetchedEvent(summary) ==
  [title |-> summary, youtubeHindi |-> NoLink, youtubeEnglish |-> NoLink,
   youtubePlaylistHindi |-> NoLink, youtubePlaylistEnglish |-> NoLink]

\* The summaries tried: a word, none, white space, the placeholder's name.
FetchedLists ==
  {[i \in 1..Len(q) |-> FetchedEvent(q[i])] :
     q \in SeqsUpTo({<<"Math">>, <<"">>, <<"", "">>, EmptySlot}, 2)}

\* a || b on a link
OrLink(a, b) == IF a = NoLink THEN b ELSE a

\* The slots of a getEvents response, page.tsx 181-199.
RECURSIVE AdjustFrom(_, _, _)
AdjustFrom(date, fetchedEvents, idx) ==
  IF idx >= CARD_COUNT THEN <<>>
  ELSE LET event == IF idx + 1 <= Len(fetchedEvents) THEN fetchedEvents[idx + 1]
                    ELSE FetchedEvent(NoTitle)  \* fetchedEvents[idx] || {}
           title == IF event.title = <<"">> THEN TitleAt(initialEventTitles, idx)
                    ELSE event.title
           derived == LinksOf(title)
           links == [youtubeHindi |-> OrLink(event.youtubeHindi, derived.youtubeHindi),
                     youtubeEnglish |-> OrLink(event.youtubeEnglish, derived.youtubeEnglish),
                     youtubePlaylistHindi |->
                       OrLink(event.youtubePlaylistHindi, derived.youtubePlaylistHindi),
                     youtubePlaylistEnglish |->
                       OrLink(event.youtubePlaylistEnglish, derived.youtubePlaylistEnglish)]
           rest == AdjustFrom(date, fetchedEvents, idx + 1)
       IN IF Skipped(title) THEN rest
          ELSE <<MakeSlot(date, idx, title, links)>> \o rest

\* The titles typed into a card: a word, two words, nothing.
TypedTitles == {<<"Rust">>, <<"Web", "Dev">>, <<"">>}

\* The cards typed into: the first, the second and the last of the list.
TypedCards(n) == {i \in {0, 1, n - 1} : i >= 0 /\ i < n}

PageStep(op) ==
  /\ uiOps < MaxUiOps
  /\ uiOps' = uiOps + 1
  /\ lastOp' = op
  /\ UNCHANGED <<postVars, dateVars, sheetVars>>

\* The request the effect of page.tsx 176-209 sends when the sheet or the
\* date it depends on has changed; it is never withdrawn.
Fetching(name, date) ==
  IF name = selectedName /\ date = selectedDate THEN inflight
  ELSE inflight \cup {[sheetName |-> name, date |-> date, id |-> uiOps + 1]}

\* handleDateRangeChange and handleSingleDateChange, page.tsx 358-376
SelectDate ==
  /\ PageStep("updateEvents")
  /\ \E d \in {"2025-01-10", "2025-01-11"} :
       /\ selectedDate' = d
       /\ events' = updateEvents(d)
       /\ lastDate' = d
       /\ inflight' = Fetching(selectedName, d)
  /\ UNCHANGED <<bulkInput, toast, pastedTitles, lastPaste, selectedName>>

\* The names of the menu: calendarAccountSheetsMap.Home, page.tsx 90-93.
sheetNames == {"Govt", "Home", "DBT(K)"}

\* A sheet is picked from the menu, page.tsx 389-393.
SelectName ==
  /\ PageStep("setSelectedName")
  /\ \E name \in sheetNames \ {selectedName} :
       /\ selectedName' = name
       /\ inflight' = Fetching(name, selectedDate)
  /\ UNCHANGED <<events, bulkInput, selectedDate, toast, pastedTitles, lastPaste, lastDate>>

\* The answer to one of the getEvents requests arrives, page.tsx 176-200;
\* selectedDate there is the date the request was made for.
GetEventsResponse ==
  /\ PageStep("getEvents")
  /\ \E p \in inflight, fetchedEvents \in FetchedLists :
       /\ events' = AdjustFrom(p.date, fetchedEvents, 0)
       /\ inflight' = inflight \ {p}
  /\ toast' = ""
  /\ UNCHANGED <<bulkInput, selectedDate, pastedTitles, lastPaste, lastDate, selectedName>>

\* One of the getEvents requests fails, page.tsx 201-204.
GetEventsFailed ==
  /\ PageStep("getEventsFailed")
  /\ \E p \in inflight :
       /\ events' = updateEvents(p.date)
       /\ lastDate' = p.date
       /\ inflight' = inflight \ {p}
  /\ toast' = "Failed to fetch events"
  /\ UNCHANGED <<bulkInput, selectedDate, pastedTitles, lastPaste, selectedName>>

\* The user types or pastes into the field (onChange, setBulkInput).
SetBulkInput ==
  /\ PageStep("setBulkInput")
  /\ \E text \in PasteTexts : bulkInput' = text
  /\ UNCHANGED <<events, selectedDate, toast, pastedTitles, lastPaste, lastDate, selectedName, inflight>>

\* A paste handler without the guard on a blank text.
handleBulkPasteUnguarded ==
  /\ PageStep("handleBulkPaste")
  /\ lastPaste' = bulkInput
  /\ pastedTitles' = PastedTitlesOf(bulkInput)
  /\ events' = SlotsFrom(selectedDate, PastedTitlesOf(bulkInput), 0)
  /\ bulkInput' = << <<>> >>
  /\ toast' = "Events updated from pasted data"
  /\ UNCHANGED <<selectedDate, lastDate, selectedName, inflight>>

\* handleBulkPaste, page.tsx 299-339
handleBulkPaste ==
  /\ PageStep("handleBulkPaste")
  /\ lastPaste' = bulkInput
  /\ IF IsBlankInput(bulkInput)
       THEN /\ toast' = "Please paste some data first"
            /\ UNCHANGED <<events, bulkInput, pastedTitles>>
       ELSE /\ pastedTitles' = PastedTitlesOf(bulkInput)
            /\ events' = SlotsFrom(selectedDate, PastedTitlesOf(bulkInput), 0)
            /\ bulkInput' = << <<>> >>
            /\ toast' = "Events updated from pasted data"
  /\ UNCHANGED <<selectedDate, lastDate, selectedName, inflight>>

\* clearBulkInput, page.tsx 341-345
clearBulkInput ==
  /\ PageStep("clearBulkInput")
  /\ bulkInput' = << <<>> >>
  /\ events' = updateEvents(selectedDate)
  /\ toast' = "Input cleared and events reset"
  /\ lastDate' = selectedDate
  /\ UNCHANGED <<selectedDate, pastedTitles, lastPaste, selectedName, inflight>>

\* A title handler that leaves the links as they were.
handleTitleChangeTitleOnly ==
  /\ PageStep("handleTitleChange")
  /\ \E index \in TypedCards(Len(events)), newTitle \in TypedTitles :
       events' = [events EXCEPT ![index + 1] = [@ EXCEPT !.title = newTitle]]
  /\ toast' = ""
  /\ UNCHANGED <<bulkInput, selectedDate, pastedTitles, lastPaste, lastDate, selectedName, inflight>>

\* handleTitleChange, page.tsx 286-297
handleTitleChange ==
  /\ PageStep("handleTitleChange")
  /\ \E index \in TypedCards(Len(events)), newTitle \in TypedTitles :
       LET links == LinksOf(newTitle)
       IN events' = [events EXCEPT ![index + 1] =
                       [@ EXCEPT !.title = newTitle,
                                 !.youtubeHindi = links.youtubeHindi,
                                 !.youtubeEnglish = links.youtubeEnglish,
                                 !.youtubePlaylistHindi = links.youtubePlaylistHindi,
                                 !.youtubePlaylistEnglish = links.youtubePlaylistEnglish]]
  /\ toast' = ""
  /\ UNCHANGED <<bulkInput, selectedDate, pastedTitles, lastPaste, lastDate, selectedName, inflight>>

\* The hour label of the card of a list index: `const hour = index +
\* START_HOUR` and its padStart, page.tsx 430-432.
CardLabel(index) == Pad2[index + START_HOUR]

PageNext ==
  \/ SelectDate
  \/ SelectName
  \/ GetEventsResponse
  \/ GetEventsFailed
  \/ SetBulkInput
  \/ handleBulkPaste
  \/ clearBulkInput
  \/ handleTitleChange

\* The page opens with no request at the endpoint.
PageStart == PostIdle /\ DateInitIdle /\ PageInit /\ SheetIdle

SpecPage == PageStart /\ [][PageNext]_vars

Init == PostInit /\ DateInitIdle /\ PageInit /\ SheetIdle

\* A request at the sheet-sync route or at GET of the calendar route.
SheetStart == PostInit /\ DateInitIdle /\ PageInit /\ SheetInit

SpecSheet == SheetStart /\ [][SheetNext]_vars

Next == ReceiveOne \/ Handler

Spec == Init /\ [][Next]_vars

SpecSession == Init /\ [][SessionNext]_vars

----------------------------------------------------------------------------
(* Properties of the write endpoint, checked under Spec *)

\* The name of the request has no non-empty id in CALENDAR_IDS.
Unresolved(r) ==
  NameOf(r) \notin DOMAIN CALENDAR_IDS \/ CALENDAR_IDS[NameOf(r)] = ""

\* C1: a POST whose body is not valid JSON is answered with status 400, and
\* no external call (authentication, calendar list, insert or delete) is
\* made for it at any point of the handler.
C1_InvalidJsonIs400WithoutCalls ==
  (pc # "idle" /\ ~req.jsonOk) =>
    /\ calls = NoCalls
    /\ pc = "done" => resp.status = 400

C3_ValidationFailureIs400BeforeWork ==
  ( /\ pc = "done"
    /\ req.jsonOk
    /\ \/ Unresolved(req)
       \/ req.body.action = Undefined
       \/ DatesOf(req.body) = <<>> ) =>
    /\ resp.status = 400
    /\ calls.insert = 0 /\ calls.list = 0 /\ calls.delete = 0

\* The slot's start has a "T" and two characters after it that are an hour.
ValidHour(evt) == evt.start.kind = "iso" /\ evt.start.hh \in DOMAIN HourTable

\* An addAll request got as far as its loop and has been answered.
AddAllRan ==
  /\ pc = "done"
  /\ auth
  /\ body.action = "addAll"
  /\ body.events.isArray
  /\ datesToProcess # <<>>

AllWithHour ==
  \A i \in 1..Len(body.events.items) : ValidHour(body.events.items[i])

\* The instant the text "<date>T<hh>:<mm>:00" names on the server.
ServerInstant(dateStr, hh, mm) ==
  DayTable[dateStr] * 1440 + HourTable[hh] * 60 + mm - serverOffset

\* The k-th create call of a batch of E slots with n calls a slot, taken
\* date by date and slot by slot: its date, slot and window numbers.
CallOrder(k, E, n) ==
  [date |-> (k - 1) \div (n * E) + 1,
   slot |-> (((k - 1) \div n) % E) + 1,
   win |-> ((k - 1) % n) + 1]

\* C4 (as amended): addAll with E events that each carry an hour and D dates
\* issues exactly two create calls per (date, slot), 2*E*D in all, date by
\* date and slot by slot: one from <date>T<hh>:00 to <hh>:05 and one from
\* <hh>:10 to <hh>:50, read in the server's local time; the answer is 200
\* and, when every call succeeded, its count is 2*E*D.
C4_TwoCreateCallsPerSlot ==
  (AddAllRan /\ AllWithHour) =>
    LET items == body.events.items
        E == Len(items)
        D == Len(datesToProcess)
    IN
    /\ resp.status = 200
    /\ calls.insert = 2 * E * D
    /\ Len(insertLog) = 2 * E * D
    /\ \A k \in 1..Len(insertLog) :
         LET o == CallOrder(k, E, 2)
             en == insertLog[k].entry
             hh == items[o.slot].start.hh
         IN /\ en.date = datesToProcess[o.date]
            /\ en.slot = o.slot
            /\ en.win = o.win
            /\ en.start = ServerInstant(en.date, hh, IF o.win = 1 THEN 0 ELSE 10)
            /\ en.end = ServerInstant(en.date, hh, IF o.win = 1 THEN 5 ELSE 50)
    /\ Clean => resp.count = 2 * E * D

\* One event "Math" on one date: two create calls and the count 2.
C4_Witness ==
  /\ AddAllRan
  /\ AllWithHour
  /\ Len(body.events.items) = 1
  /\ body.events.items[1].title = "Math"
  /\ Len(datesToProcess) = 1
  /\ calls.insert = 2
  /\ resp.count = 2

\* C4 (as stated): addAll with E events and D dates issues exactly one
\* create call per (date, slot), E*D in all, each from <date>T<hh>:00:00 to
\* fifty minutes later, and reports the count E*D.
C4_OneCreateCallPerSlot ==
  (AddAllRan /\ AllWithHour) =>
    LET items == body.events.items
        E == Len(items)
        D == Len(datesToProcess)
    IN
    /\ resp.status = 200
    /\ calls.insert = E * D
    /\ \A k \in 1..Len(insertLog) :
         LET en == insertLog[k].entry
         IN en.end = en.start + 50
    /\ Clean => resp.count = E * D

\* A removeAll request got as far as its loop and has been answered.
RemoveAllRan ==
  /\ pc = "done"
  /\ auth
  /\ body.action = "removeAll"
  /\ datesToProcess # <<>>

\* The delete calls of the request with the given outcome.
DeletesWith(outcome) ==
  {k \in 1..Len(deleteLog) : deleteLog[k].outcome = outcome}

\* The event starts on the date in Asia/Kolkata.
StartsOn(e, dateStr) ==
  e.timed /\ (e.start + KolkataOffset) \div MinutesPerDay = DayTable[dateStr]

\* C7: the count a removeAll reports is the number of delete calls, over all
\* the requested dates, that succeeded: failed deletes are not counted, and
\* every delete call is for an event that starts on the date it is made for.
C7_CountIsSuccessfulDeletes ==
  RemoveAllRan =>
    /\ resp.status = 200
    /\ resp.count = Cardinality(DeletesWith("ok"))
    /\ Len(deleteLog) = calls.delete
    /\ Cardinality(InitialCalendar \ calendar)
         = resp.count + Cardinality(DeletesWith("404"))
    /\ \A k \in 1..Len(deleteLog) :
         \E e \in InitialCalendar :
           e.id = deleteLog[k].id /\ StartsOn(e, deleteLog[k].date)

\* Three events start on the 10th and none on the 11th; one delete was
\* refused and two went through.
C7_Witness ==
  /\ RemoveAllRan
  /\ datesToProcess = <<"2025-01-10", "2025-01-11">>
  /\ calls.delete = 3
  /\ DeletesWith("403") # {}
  /\ resp.count = 2

\* No event of the calendar starts on the date when the request arrives.
NoMatchAtStart(dateStr) == \A e \in InitialCalendar : ~StartsOn(e, dateStr)

\* C8: for a requested date on which no event matches, removeAll makes no
\* delete call and adds nothing to the count, and the request is still
\* answered with success.
C8_DateWithoutMatchDeletesNothing ==
  (pc # "idle" /\ auth /\ body.action = "removeAll") =>
    /\ \A k \in 1..Len(deleteLog) : ~NoMatchAtStart(deleteLog[k].date)
    /\ RemoveAllRan =>
         /\ resp.status = 200
         /\ (\A i \in 1..Len(datesToProcess) : NoMatchAtStart(datesToProcess[i]))
              => resp.count = 0 /\ calls.delete = 0

\* removeAll for the 11th alone, listed without error: nothing deleted.
C8_Witness ==
  /\ RemoveAllRan
  /\ datesToProcess = <<"2025-01-11">>
  /\ NoMatchAtStart("2025-01-11")
  /\ calls.list = 1
  /\ listFailed = {}
  /\ calls.delete = 0
  /\ resp.status = 200
  /\ resp.count = 0

\* The first slot whose start has no hour to read (0: there is none).
FirstBad(items) ==
  IF \E i \in 1..Len(items) : items[i].start.kind # "iso"
    THEN CHOOSE i \in 1..Len(items) :
           /\ items[i].start.kind # "iso"
           /\ \A j \in 1..(i - 1) : items[j].start.kind = "iso"
    ELSE 0

\* The create calls due for a batch, in order: two per date and slot with an
\* hour, up to the first slot whose start has no hour to read.
ExpectedCreates(items, D) ==
  LET E == Len(items)
      bad == FirstBad(items)
      all == [k \in 1..(2 * E * D) |-> CallOrder(k, E, 2)]
      Due(o) ==
        /\ ValidHour(items[o.slot])
        /\ bad = 0 \/ (o.date = 1 /\ o.slot < bad)
  IN SelectSeq(all, Due)

\* C9: addAll is best effort: a create call that fails stops nothing.  The
\* create calls made are those of every (date, slot, window) in order,
\* whichever of them failed; unless a start has no hour to read (C10) the
\* answer is 200; the count is the number of calls that succeeded, and
\* every event created is still in the calendar.
C9_CreateFailureIsIsolated ==
  AddAllRan =>
    LET items == body.events.items
        expected == ExpectedCreates(items, Len(datesToProcess))
        ok == {k \in 1..Len(insertLog) : insertLog[k].ok}
    IN
    /\ calls.insert = Len(expected)
    /\ Len(insertLog) = Len(expected)
    /\ \A k \in 1..Len(insertLog) :
         /\ insertLog[k].entry.date = datesToProcess[expected[k].date]
         /\ insertLog[k].entry.slot = expected[k].slot
         /\ insertLog[k].entry.win = expected[k].win
    /\ FirstBad(items) = 0 => resp.status = 200 /\ resp.count = Cardinality(ok)
    /\ InitialCalendar \subseteq calendar
    /\ Cardinality(calendar) = Cardinality(InitialCalendar) + Cardinality(ok)

\* A create call failed, later ones were made and went through.
C9_Witness ==
  /\ AddAllRan
  /\ Len(insertLog) >= 3
  /\ ~insertLog[1].ok
  /\ insertLog[Len(insertLog)].ok
  /\ resp.status = 200
  /\ resp.count = Len(insertLog) - 1

\* C10: in addAll an event whose start cannot be parsed, a missing or
\* malformed start included, is skipped and the batch goes on: the answer
\* is never an error, and every other event gets its create calls.
C10_UnparseableStartIsSkipped ==
  AddAllRan =>
    LET items == body.events.items
        good == {i \in 1..Len(items) : ValidHour(items[i])}
    IN
    /\ resp.status = 200
    /\ calls.insert = 2 * Cardinality(good) * Len(datesToProcess)

----------------------------------------------------------------------------
(* Properties of a session, checked under SpecSession *)

\* The request answered last is a removeAll that follows a removeAll.
SecondRemove ==
  /\ pc = "done"
  /\ req.body.action = "removeAll"
  /\ prev.action = "removeAll"
  /\ prev.status = 200

\* The delete calls of the request for the date.
DeleteCallsOn(dateStr) ==
  {k \in 1..Len(deleteLog) : deleteLog[k].date = dateStr}

----------------------------------------------------------------------------
(* Properties of getDatesBetween, checked under SpecDates *)

\* The day number of a civil date <<year, month, day>>.
JulianDay(c) ==
  LET a == (14 - c[2]) \div 12
      yy == c[1] + 4800 - a
      mm == c[2] + 12 * a - 3
  IN c[3] + ((153 * mm + 2) \div 5) + 365 * yy + (yy \div 4) - (yy \div 100)
       + (yy \div 400) - 32045

\* <<year, month, day>> is a date of the calendar.
IsCivil(c) ==
  /\ c[2] \in 1..12
  /\ c[3] >= 1
  /\ c[3] <= CASE c[2] \in {4, 6, 9, 11} -> 30
               [] c[2] = 2 ->
                    (IF (c[1] % 4 = 0 /\ c[1] % 100 # 0) \/ c[1] % 400 = 0
                       THEN 29 ELSE 28)
               [] OTHER -> 31

DayOf(t) == JulianDay(<<t.y, t.m, t.d>>)

\* The list holds every date from day number lo to day number hi, each
\* once, ascending.
EveryDate(out, lo, hi) ==
  /\ Len(out) = hi - lo + 1
  /\ \A i \in 1..Len(out) : IsCivil(out[i]) /\ JulianDay(out[i]) = lo + i - 1

\* C6 (as amended): getDatesBetween(a, b) returns every date from a's to
\* b's inclusive, each once, ascending, whatever the times of day, when a's
\* date is not after b's; when it is after, the list is empty.
C6_DatesBetweenForward ==
  drPc = "returned" =>
    IF DayOf(drA) <= DayOf(drB)
      THEN EveryDate(drOut, DayOf(drA), DayOf(drB))
      ELSE drOut = <<>>

\* From noon of 28 February 2024 to midnight of 1 March: three dates.
C6_Witness ==
  /\ drPc = "returned"
  /\ drA = DateAt(<<2024, 2, 28>>, 720)
  /\ drB = DateAt(<<2024, 3, 1>>, 0)
  /\ drOut = << <<2024, 2, 28>>, <<2024, 2, 29>>, <<2024, 3, 1>> >>

\* C6 (as stated): getDatesBetween(a, b) returns every date from the
\* earlier to the later of a and b, whichever comes first.
C6_DatesBetweenEitherOrder ==
  drPc = "returned" =>
    LET lo == IF DayOf(drA) <= DayOf(drB) THEN DayOf(drA) ELSE DayOf(drB)
        hi == IF DayOf(drA) <= DayOf(drB) THEN DayOf(drB) ELSE DayOf(drA)
    IN EveryDate(drOut, lo, hi)

----------------------------------------------------------------------------
(* Properties of the delete loop and of the list loop, checked under Spec *)

HasId(e) == e.id # 0

\* The events the delete loop has passed on the current date that have an id.
PassedWithId == SelectSeq(SubSeq(eventsToDelete, 1, delIdx - 1), HasId)

\* C11: in removeAll a delete call is issued for each matching event that
\* has an id; whatever the failure of a delete call (404, 403 or other) the
\* loop goes on to the next event and the next date, the failed delete is
\* not counted, and the request is answered with success.
C11_DeleteFailureIsIsolated ==
  /\ (auth /\ body.action = "removeAll" /\ pc = "delete") =>
       LET n == Len(PassedWithId)
           base == Len(deleteLog) - n
       IN
       /\ base >= 0
       /\ \A j \in 1..n :
            /\ deleteLog[base + j].id = PassedWithId[j].id
            /\ deleteLog[base + j].date = datesToProcess[di]
       /\ \A i \in 1..Len(eventsToDelete) :
            StartsOn(eventsToDelete[i], datesToProcess[di])
       /\ (delIdx = 1 /\ datesToProcess[di] \notin listFailed) =>
            {eventsToDelete[i] : i \in 1..Len(eventsToDelete)}
              = {e \in calendar : StartsOn(e, datesToProcess[di])}
       /\ totalDeletedEvents = Cardinality(DeletesWith("ok"))
  /\ RemoveAllRan =>
       /\ resp.status = 200
       /\ di = Len(datesToProcess)
       /\ delIdx = Len(eventsToDelete) + 1
       /\ Len(PassedWithId) <= Len(deleteLog)
       /\ resp.count = Cardinality(DeletesWith("ok"))

\* The first delete on the 10th was answered 404; the two after it went
\* through and the 11th was listed after that.
C11_Witness ==
  /\ RemoveAllRan
  /\ datesToProcess = <<"2025-01-10", "2025-01-11">>
  /\ Len(deleteLog) = 3
  /\ deleteLog[1].outcome = "404"
  /\ deleteLog[2].outcome = "ok"
  /\ deleteLog[3].outcome = "ok"
  /\ calls.list >= 4
  /\ resp.status = 200
  /\ resp.count = 2

\* The number of pages of a result of n events.
Pages(n) == IF n = 0 THEN 1 ELSE (n + PageSize - 1) \div PageSize

\* The list call that opened the paging of the current date.
PassStart ==
  CHOOSE k \in 1..Len(listLog) :
    listLog[k].token = 0 /\ \A j \in (k + 1)..Len(listLog) : listLog[j].token # 0

\* C12: for each date removeAll calls list again and again, each time with
\* the token the page before returned (none for the first page), until a
\* page comes without a token; the events of every page are put to the
\* filter, and the paging of a date ends after as many calls as the result
\* has pages.  (A list call that fails is C27's case.)
C12_PagingFollowsTokens ==
  (auth /\ body.action = "removeAll") =>
    /\ Len(listLog) = calls.list
    /\ \A k \in 1..Len(listLog) :
         /\ listLog[k].token = IF k = 1 THEN 0 ELSE listLog[k - 1].next
         /\ listLog[k].token # 0 => listLog[k].date = listLog[k - 1].date
         /\ listLog[k].next = 0 \/ listLog[k].next > listLog[k].token
    /\ (pc = "list" /\ listLog # <<>>) =>
         pageToken = listLog[Len(listLog)].next
    /\ (pc = "delete" /\ delIdx = 1 /\ listLog[Len(listLog)].ok) =>
         LET d == datesToProcess[di]
             all == ListResult(calendar, d)
             OnDate(e) == StartsOn(e, d)
         IN /\ listLog[Len(listLog)].next = 0
            /\ listLog[Len(listLog)].date = d
            /\ Len(listLog) - PassStart + 1 = Pages(Len(all))
            /\ eventsToDelete = SelectSeq(all, OnDate)

\* The six events in the window of the 10th came on more pages than one,
\* and the four that start on the 10th are all up for deletion.
C12_Witness ==
  /\ auth
  /\ body.action = "removeAll"
  /\ pc = "delete"
  /\ delIdx = 1
  /\ datesToProcess[di] = "2025-01-10"
  /\ Len(ListResult(calendar, "2025-01-10")) = 6
  /\ Len(listLog) = Pages(6)
  /\ Len(listLog) >= 2
  /\ listLog[2].token # 0
  /\ listLog[Len(listLog)].ok
  /\ Len(eventsToDelete) = 4

\* The events the list calls for the current date have returned so far.
Listed ==
  LET all == ListResult(calendar, datesToProcess[di])
      upto == IF pc = "delete" /\ listLog[Len(listLog)].ok
                THEN Len(all) ELSE pageToken
  IN {all[i] : i \in 1..upto}

\* C13: an event returned by list is selected for deletion for the date d
\* exactly when it has a start timestamp and that instant, read in
\* Asia/Kolkata, falls on the calendar date d.
C13_SelectedIffStartsOnDate ==
  ( /\ auth
    /\ body.action = "removeAll"
    /\ pc = "list" \/ (pc = "delete" /\ delIdx = 1) ) =>
    LET d == datesToProcess[di]
        selected == {eventsToDelete[i] : i \in 1..Len(eventsToDelete)}
    IN
    /\ selected \subseteq Listed
    /\ \A e \in Listed :
         e \in selected <=>
           (e.timed /\ (e.start + 5 * 60 + 30) \div (24 * 60) = DayTable[d])

\* Listed for the 10th: an event at 03:00 (21:30 of the 9th in UTC) is
\* selected; the all-day event of the 10th and the event that started at
\* 23:30 on the 9th are not.
C13_Witness ==
  /\ auth
  /\ body.action = "removeAll"
  /\ pc = "delete"
  /\ delIdx = 1
  /\ datesToProcess[di] = "2025-01-10"
  /\ listLog[Len(listLog)].ok
  /\ \E i \in 1..Len(eventsToDelete) :
       eventsToDelete[i].start \div (24 * 60) = 9
  /\ \E e \in Listed : ~e.timed
  /\ \E e \in Listed :
       /\ e.timed
       /\ (e.start + 5 * 60 + 30) \div (24 * 60) = 9
       /\ \A i \in 1..Len(eventsToDelete) : eventsToDelete[i] # e

----------------------------------------------------------------------------
(* Properties of the request as a whole, checked under Spec *)

\* C14: a POST goes through Validate, Authenticate, Execute, Aggregate and
\* Respond in that order: authentication is not attempted before validation
\* has finished (so never for a request that fails validation), no calendar
\* call is made before authentication, nothing is retried, and a failure
\* at Authenticate ends the request with 500 and no calendar call.
C14_PhasesInOrder ==
  /\ calls.auth >= 1 =>
       /\ ~Unresolved(req)
       /\ req.jsonOk
       /\ req.body.action # Undefined
       /\ DatesOf(req.body) # <<>>
  /\ calls.auth <= 1
  /\ (calls.insert + calls.list + calls.delete > 0) => auth
  /\ (pc = "done" /\ calls.auth = 1 /\ ~auth) =>
       /\ resp.status = 500
       /\ calls.insert + calls.list + calls.delete = 0

\* The request fails one of the handler's validations.
ValidationFault ==
  \/ Unresolved(req)
  \/ ~req.jsonOk
  \/ req.body.action = Undefined
  \/ DatesOf(req.body) = <<>>
  \/ req.body.action \notin {"addAll", "removeAll"}
  \/ req.body.action = "addAll" /\ ~req.body.events.isArray

\* The configuration is incomplete or an external call has failed.
ExternalFault == ~parsedServiceAccountKeys \/ failures > 0

\* C15: an error response has status 400 when its cause is a validation
\* failure and 500 when its cause is an authentication, configuration or
\* external-API failure, and its body carries a string field `error`.
C15_ErrorStatusByCause ==
  (pc = "done" /\ resp.status # 200) =>
    /\ resp.error # ""
    /\ \/ resp.status = 400 /\ ValidationFault
       \/ resp.status = 500 /\ ExternalFault

\* The place of a date in the request's list of dates.
DatePos(d) == CHOOSE i \in 1..Len(datesToProcess) : datesToProcess[i] = d

DistinctDates ==
  \A i, j \in 1..Len(datesToProcess) :
    datesToProcess[i] = datesToProcess[j] => i = j

\* C16: within a request the external calls are strictly sequential: at
\* most one is outstanding at any time, the handler stands at that call
\* until it is answered, and addAll issues its create calls date by date
\* and, within a date, slot by slot.
C16_CallsAreSequential ==
  /\ outstanding \in {0, 1}
  /\ outstanding = 1 => CallDue
  /\ Len(insertLog) = calls.insert
  /\ Len(listLog) = calls.list
  /\ Len(deleteLog) = calls.delete
  /\ DistinctDates =>
       /\ \A j, k \in 1..Len(insertLog) :
            j < k =>
              LET a == insertLog[j].entry
                  b == insertLog[k].entry
              IN \/ DatePos(a.date) < DatePos(b.date)
                 \/ /\ a.date = b.date
                    /\ \/ a.slot < b.slot
                       \/ a.slot = b.slot /\ a.win < b.win
       /\ \A j, k \in 1..Len(deleteLog) :
            j < k => DatePos(deleteLog[j].date) <= DatePos(deleteLog[k].date)

\* Two slots on two dates: the four calls of the first date are answered,
\* the first call of the second date is out, and nothing else is.
C16_Witness ==
  /\ body.action = "addAll"
  /\ Len(body.events.items) = 2
  /\ Len(datesToProcess) = 2
  /\ DistinctDates
  /\ pc = "insert"
  /\ outstanding = 1
  /\ di = 2 /\ ei = 1 /\ wi = 1
  /\ Len(insertLog) = 4
  /\ \A k \in 1..4 : insertLog[k].entry.date = datesToProcess[1]

----------------------------------------------------------------------------
(* The page's slot list *)

\* The hour a two-digit text names.
HourOf(hh) == CHOOSE n \in 0..23 : Pad2[n] = hh

MinuteOf(mm) == IF mm = "50" THEN 50 ELSE 0

\* The minute of the day of a slot's start or end.
MinuteOfDay(t) == HourOf(t.hh) * 60 + MinuteOf(t.mm)

\* updateEvents ran last: a date was picked, the field was cleared or a
\* getEvents request failed.
UpdateEventsRan == lastOp \in {"updateEvents", "clearBulkInput", "getEventsFailed"}

\* C17: updateEvents leaves exactly CARD_COUNT slots on the date it is given,
\* one for each hour from START_HOUR on in order, each ending fifty minutes
\* after its start on the same date and each with a title that is not blank.
C17_UpdateEventsMakesEverySlot ==
  UpdateEventsRan =>
    /\ Len(events) = CARD_COUNT
    /\ \A i \in 1..Len(events) :
         /\ events[i].start.date = lastDate
         /\ events[i].end.date = lastDate
         /\ MinuteOfDay(events[i].start) = (START_HOUR + i - 1) * 60
         /\ MinuteOfDay(events[i].end) = MinuteOfDay(events[i].start) + 50
         /\ ~IsBlank(events[i].title)

C17_Witness ==
  /\ lastOp = "updateEvents"
  /\ selectedDate = "2025-01-11"
  /\ Len(events) = CARD_COUNT
  /\ events[CARD_COUNT].start.hh = "22"

HasWords(item) == Trim(item) # <<>>

\* handleBulkPaste ran last on a text that is not blank.
PasteRan == lastOp = "handleBulkPaste" /\ ~IsBlankInput(lastPaste)

\* The titles of the last paste are CARD_COUNT titles: those of the items
\* that are not empty, in their order, then the fallback titles of the
\* positions left.
TitlesOfPaste ==
  LET given == SelectSeq(lastPaste, HasWords)
  IN /\ Len(pastedTitles) = CARD_COUNT
     /\ \A i \in 1..CARD_COUNT :
          pastedTitles[i] = IF i <= Len(given) THEN TitleOf(Trim(given[i]))
                            ELSE initialEventTitles[i]

\* C18: after handleBulkPaste on a text that is not blank there are exactly
\* CARD_COUNT titles, the first ones from the items in their order and the
\* rest from the fallback list, and the slot list has exactly CARD_COUNT
\* entries.
C18_PasteMakesEverySlot == PasteRan => TitlesOfPaste /\ Len(events) = CARD_COUNT

\* The part of C18 on the titles alone.
C18_PasteMakesEveryTitle == PasteRan => TitlesOfPaste

\* C19: when the paste field holds nothing or only white space,
\* handleBulkPaste shows the error toast and changes neither the slot list
\* nor the text of the field.
C19_BlankPasteChangesNothing ==
  [][(lastOp' = "handleBulkPaste" /\ uiOps' = uiOps + 1 /\ IsBlankInput(bulkInput)) =>
       /\ toast' = "Please paste some data first"
       /\ events' = events
       /\ bulkInput' = bulkInput]_vars

C19_Witness ==
  /\ lastOp = "handleBulkPaste"
  /\ lastPaste = << <<Blank>> >>
  /\ bulkInput = << <<Blank>> >>
  /\ toast = "Please paste some data first"
  /\ Len(events) = CARD_COUNT

\* The four links of every slot are the search URLs of the slot's title.
LinksCurrent(slots) ==
  \A i \in 1..Len(slots) :
    /\ slots[i].youtubeHindi = LinksOf(slots[i].title).youtubeHindi
    /\ slots[i].youtubeEnglish = LinksOf(slots[i].title).youtubeEnglish
    /\ slots[i].youtubePlaylistHindi = LinksOf(slots[i].title).youtubePlaylistHindi
    /\ slots[i].youtubePlaylistEnglish = LinksOf(slots[i].title).youtubePlaylistEnglish

\* The step is an edit of one title: the list keeps its length and differs
\* from the old one in at most one slot, of which only the title and the
\* links differ.
OneSlotEdited ==
  /\ Len(events') = Len(events)
  /\ \E index \in 1..Len(events) :
       /\ \A j \in 1..Len(events) : j # index => events'[j] = events[j]
       /\ events'[index].start = events[index].start
       /\ events'[index].end = events[index].end
       /\ events'[index].timeZone = events[index].timeZone

\* C20: whichever operations have set the slot list (updateEvents, a
\* getEvents response, handleBulkPaste, handleTitleChange), the four links of
\* every slot are the search URLs of its current title, and an edit of a
\* title changes that one slot and no other.
C20_LinksFollowTitles ==
  [][/\ LinksCurrent(events')
     /\ (lastOp' = "handleTitleChange" /\ uiOps' = uiOps + 1) => OneSlotEdited]_vars

C20_Witness ==
  /\ lastOp = "handleTitleChange"
  /\ Len(events) = CARD_COUNT
  /\ events[1].title = <<"Math">>
  /\ events[2].title = <<"Web", "Dev">>
  /\ events[CARD_COUNT].title = <<"Rust">>
  /\ events[2].youtubePlaylistHindi = SearchUrl(<<"Web", "Dev">>, " playlist in Hindi", TRUE)

----------------------------------------------------------------------------
(* Adding and then removing, checked under SpecSession *)

\* A removeAll has been answered after an addAll for the same dates, every
\* external call of both requests having succeeded, and no event of the
\* calendar started on one of the dates before the add.
RemoveAfterAdd ==
  /\ pc = "done"
  /\ req.body.action = "removeAll"
  /\ resp.status = 200
  /\ Clean
  /\ prev.action = "addAll"
  /\ prev.status = 200
  /\ prev.clean
  /\ prev.dates = {datesToProcess[i] : i \in 1..Len(datesToProcess)}
  /\ \A d \in prev.dates : \A e \in InitialCalendar : ~StartsOn(e, d)

\* The events the add created: the calendar held no "Math" before.
Created == {e \in calendar : e.summary = "Math"}

\* C25: when a removeAll for a date follows an addAll for it, with every call
\* succeeding and the date empty before, no event the add created is left in
\* the calendar, whatever the server's time zone.
C25_RemoveUndoesAdd == RemoveAfterAdd => Created = {}

----------------------------------------------------------------------------
(* The page's requests and cards, checked under SpecPage *)

\* C29: once every getEvents request has been answered, every slot starts
\* on the date that is selected: an answer to an earlier selection does not
\* replace the slots of a later one.
C29_SlotsFollowSelection ==
  inflight = {} => \A i \in 1..Len(events) : events[i].start.date = selectedDate

\* C30: the card of list index i stands for the hour START_HOUR + i: its
\* label is the hour of the start of the slot it shows, which is the slot
\* handleTitleChange(i, ...) edits.
C30_CardShowsItsHour ==
  \A index \in 0..(Len(events) - 1) : CardLabel(index) = events[index + 1].start.hh

----------------------------------------------------------------------------
(* Requests the endpoint rejects, checked under Spec *)

\* The request names a calendar, its body parses and holds dates, and its
\* action is neither "addAll" nor "removeAll".
UnknownAction ==
  /\ ~Unresolved(req)
  /\ req.jsonOk
  /\ DatesOf(req.body) # <<>>
  /\ req.body.action \notin {Undefined, "addAll", "removeAll"}

\* The same for an addAll whose events are missing or not an array.
AddWithoutArray ==
  /\ ~Unresolved(req)
  /\ req.jsonOk
  /\ DatesOf(req.body) # <<>>
  /\ req.body.action = "addAll"
  /\ ~req.body.events.isArray

\* C28: a request with an action other than "addAll" and "removeAll" is
\* answered 400 "Invalid action", an addAll without an array of events is
\* answered 400, and neither makes a call to the calendar.
C28_UnknownActionIs400WithoutCalls ==
  /\ (pc = "done" /\ UnknownAction) =>
       resp.status = 400 /\ resp.error = "Invalid action"
  /\ (pc = "done" /\ AddWithoutArray) => resp.status = 400
  /\ (UnknownAction \/ AddWithoutArray) => calls.insert + calls.list + calls.delete = 0

----------------------------------------------------------------------------
(* What removeAll deletes and how it takes a failed list call, under Spec *)

\* The dates of the request.
Requested == {datesToProcess[i] : i \in 1..Len(datesToProcess)}

ListCallsOn(d) == {k \in 1..Len(listLog) : listLog[k].date = d}

----------------------------------------------------------------------------
(* Properties of the sheet-sync route, checked under SpecSheet *)

\* C21: once the ensure step has completed, every configured sheet exists
\* and its first row is exactly the expected header, whatever the first
\* row was before.
C21_EnsureLeavesExactHeaders ==
  shPc = "action" =>
    \A n \in SheetNameSet :
      doc[n].exists /\ RowAt(doc[n].rows, 1) = SHEETS_HEADERS

\* A request of the sheet-sync route has been answered with success.
SheetSucceeded(action) ==
  /\ shPc = "done"
  /\ shReq.route = "sheet"
  /\ shReq.method = "POST"
  /\ shReq.body.action = action
  /\ shResp.status = 200

\* The rows of a sheet below its first row.
RowsBelowHeader(sheet) == SubSeq(sheet.rows, 2, Len(sheet.rows))

\* C22: after a successful addAll the rows of the named sheet below the
\* header are exactly the rows generated from the submitted events, one per
\* event from row 2 on, and none of an earlier add remains.
C22_AddOverwritesWholesale ==
  SheetSucceeded("addAll") =>
    RowsBelowHeader(doc[NameOf(shReq)]) = SheetValues(shReq.body.events)

C24_GetSheetNamesSucceeds ==
  (shPc = "done" /\ shReq.method = "GET" /\ shReq.action = "getSheetNames") =>
    shResp.status = 200 /\ shResp.sheetNames = SHEET_NAMES

====
